---- MODULE Spec2Model ----
(***************************************************************************)
(* Token and account lifecycle of go-reasonable-api: session tokens,       *)
(* password resets, scheduled account deletion, the transaction manager    *)
(* and the cleanup task, as a state machine over the users, auth_tokens,   *)
(* password_resets and email_verifications tables.                         *)
(*                                                                         *)
(* The database is PostgreSQL at its default isolation level (BeginTx is   *)
(* called with nil options): a statement outside a transaction commits on  *)
(* its own; a statement inside a transaction reads the committed rows      *)
(* overlaid with the transaction's own writes, its writes stay private     *)
(* until COMMIT, and a write to a row another open transaction has written *)
(* waits until that transaction ends.                                      *)
(***************************************************************************)
EXTENDS Integers, Sequences, FiniteSets, TLC

\* ---------------------------------------------------------------- bounds
MaxTime == 2
NumWorkers == 2
MaxOps == 2
MaxAuthTokens == 2
MaxPasswordResets == 2
NumPasswords == 2
MaxUserID == 2
MaxCleanupRuns == 1
MaxEmailVerifications == 2
\* calls started in a run of the email verification scenario
MaxVerificationOps == 3
MaxUsers == 3
\* configured durations, in clock ticks
AuthTokenTTL == 1
PasswordResetTokenTTL == 1
AccountDeletionDelay == 1
EmailConfirmationTokenTTL == 1
\* DefaultAuthTokenTTL (one year), in clock ticks
DefaultAuthTokenTTL == 2

Workers == 1..NumWorkers
Passwords == 1..NumPasswords
Time == 0..MaxTime
Null == -1
\* user ids and emails a caller may present; the email of user u is u
UserIDs == 1..MaxUserID
Emails == 1..MaxUserID
\* passwords a caller may present; 0 is one longer than bcrypt accepts
PasswordInputs == 0..NumPasswords

\* ---------------------------------------------------------------- errors
\* An error is the chain of its messages, outermost first; nil is <<>>.
Nil == <<>>
ErrNoRows == <<"sql: no rows in result set">>
ErrDriver == <<"driver: bad connection">>
ErrInvalidCredentials == <<"INVALID_CREDENTIALS">>
ErrInvalidToken == <<"INVALID_TOKEN">>
ErrTokenRevoked == <<"TOKEN_REVOKED">>
ErrTokenExpired == <<"TOKEN_EXPIRED">>
ErrTokenAlreadyUsed == <<"TOKEN_ALREADY_USED">>
ErrInvalidResetToken == <<"INVALID_RESET_TOKEN">>
ErrInvalidVerificationToken == <<"INVALID_VERIFICATION_TOKEN">>
ErrEmailAlreadyVerified == <<"EMAIL_ALREADY_VERIFIED">>
ErrUserNotFound == <<"USER_NOT_FOUND">>
ErrEmailAlreadyExists == <<"EMAIL_ALREADY_EXISTS">>
ErrUniqueViolation == <<"pq: duplicate key value violates unique constraint">>
ErrDeletionAlreadyScheduled == <<"DELETION_ALREADY_SCHEDULED">>

Wrap(err, msg) == <<msg>> \o err

\* eris.Is: some error of the chain is the target
Is(err, target) ==
    \E i \in 1..Len(err) : SubSeq(err, i, Len(err)) = target

\* ---------------------------------------------------------------- codec
HashToken(token) == <<"sha256", token>>

BcryptHash(password) == <<"bcrypt", password>>

\* a bug: every password matches
Compare_AcceptsAny(hash, password) == TRUE

CompareHashAndPassword(hash, password) == hash = BcryptHash(password)

\* a bug: no time is after another, nothing ever expires
After_Never(t, u) == FALSE

\* time.Time.After
After(t, u) == t > u

VARIABLES
    users,            \* users table: id -> row
    auth_tokens,      \* auth_tokens table: id -> row
    password_resets,  \* password_resets table: id -> row
    email_verifications, \* email_verifications table: id -> row
    now,              \* the clock
    pc,               \* per worker: position in its current call
    l,                \* per worker: the call's arguments, locals and result
    tx,               \* per worker: the writes of its open transaction, or NoTx
    queue,            \* email tasks handed to the broker
    sentry,           \* email tasks whose enqueue error was captured
    cpc,              \* position of the cleanup task
    cerr,             \* what the cleanup task's last run returned, nil while it runs
    ops,              \* number of calls started
    cleanups,         \* number of cleanup runs started
    minted,           \* number of tokens and of user ids generated so far, per kind
    executed,         \* raw reset token -> number of Execute calls that returned nil
    issuedOn,         \* auth token id -> password hash the login compared against
    scheduled,        \* number of ScheduleDeletion calls that returned nil since the last login
    config            \* the configuration the services were built with

vars == <<users, auth_tokens, password_resets, email_verifications, now, pc, l, tx, queue, sentry, cpc,
          cerr, ops, cleanups, minted, executed, issuedOn, scheduled, config>>

NoTx == [open |-> FALSE]
EmptyTx == [open |-> TRUE, users |-> <<>>, auth_tokens |-> <<>>, password_resets |-> <<>>,
            email_verifications |-> <<>>]
NoRow == [found |-> FALSE]
NoCall == [op |-> "none"]

\* f with the rows of g laid over it
Overlay(f, g) ==
    [k \in DOMAIN f |-> IF k \in DOMAIN g THEN g[k] ELSE f[k]]

\* f extended or overwritten at k
Put(f, k, v) == [x \in DOMAIN f \cup {k} |-> IF x = k THEN v ELSE f[x]]

\* the rows of f and g, g winning
Merge(f, g) ==
    [k \in DOMAIN f \cup DOMAIN g |-> IF k \in DOMAIN g THEN g[k] ELSE f[k]]

\* f without the keys in ks
Drop(f, ks) == [x \in DOMAIN f \ ks |-> f[x]]

\* ---------------------------------------------------------------- rows
UserRow(id, hash) ==
    [found |-> TRUE, id |-> id, email |-> id, password_hash |-> hash,
     email_verified_at |-> Null, deletion_scheduled_at |-> Null]

\* a bug: the row of a new session is written as revoked
AuthTokenRow_Revoked(id, userID, tokenHash, expiresAt) ==
    [found |-> TRUE, id |-> id, user_id |-> userID, token_hash |-> tokenHash,
     expires_at |-> expiresAt, revoked_at |-> 0]

AuthTokenRow(id, userID, tokenHash, expiresAt) ==
    [found |-> TRUE, id |-> id, user_id |-> userID, token_hash |-> tokenHash,
     expires_at |-> expiresAt, revoked_at |-> Null]

PasswordResetRow(id, userID, tokenHash, expiresAt) ==
    [found |-> TRUE, id |-> id, user_id |-> userID, token_hash |-> tokenHash,
     expires_at |-> expiresAt, used_at |-> Null]

EmailVerificationRow(id, userID, tokenHash, expiresAt) ==
    [found |-> TRUE, id |-> id, user_id |-> userID, token_hash |-> tokenHash,
     expires_at |-> expiresAt, used_at |-> Null]

\* ---------------------------------------------------------------- locks
\* rows of a table that an open transaction of another worker has written
Locked(w, table) ==
    UNION {DOMAIN tx[v][table] : v \in {x \in Workers \ {w} : tx[x].open}}

\* rows written by any open transaction (the cleanup task holds none)
LockedAny(table) ==
    UNION {DOMAIN tx[v][table] : v \in {x \in Workers : tx[x].open}}

\* The registered user has logged in once and asked for one password reset.
Init ==
    /\ users = [u \in {1} |-> UserRow(u, BcryptHash(1))]
    /\ config = [AuthTokenTTL |-> AuthTokenTTL]
    /\ auth_tokens = [t \in {1} |-> AuthTokenRow(t, 1, HashToken(t), AuthTokenTTL)]
    /\ password_resets = [t \in {1} |-> PasswordResetRow(t, 1, HashToken(t), PasswordResetTokenTTL)]
    /\ email_verifications = <<>>
    /\ now = 0
    /\ pc = [w \in Workers |-> "idle"]
    /\ l = [w \in Workers |-> NoCall]
    /\ tx = [w \in Workers |-> NoTx]
    /\ queue = {}
    /\ sentry = {}
    /\ cpc = "idle"
    /\ cerr = Nil
    /\ ops = 0
    /\ cleanups = 0
    /\ minted = [auth |-> 1, reset |-> 1, verification |-> 0, user |-> 1]
    /\ executed = [t \in 1..MaxPasswordResets |-> 0]
    /\ issuedOn = [t \in {1} |-> BcryptHash(1)]
    /\ scheduled = 0

\* a worker is free to take a new call (the free workers are interchangeable:
\* the lowest takes it); l[w] keeps the last call's result
Free(w) ==
    /\ pc[w] = "idle"
    /\ ops < MaxOps
    /\ \A v \in Workers : v < w => pc[v] # "idle"

\* the call of worker w ends with these locals
Finish(w, locals) ==
    /\ pc' = [pc EXCEPT ![w] = "idle"]
    /\ l' = [l EXCEPT ![w] = locals]

\* the call of worker w moves on to step
Goto(w, step, locals) ==
    /\ pc' = [pc EXCEPT ![w] = step]
    /\ l' = [l EXCEPT ![w] = locals]

\* calls that will still insert an auth token
LoginsInFlight == Cardinality({v \in Workers : pc[v] \in {"login_cancel", "login_token"}})

Tick ==
    /\ now < MaxTime
    /\ now' = now + 1
    /\ UNCHANGED <<email_verifications, users, auth_tokens, password_resets, pc, l, tx, queue, sentry, cpc, cerr,
                   ops, cleanups, minted, executed, issuedOn, scheduled, config>>

\* ------------------------------------------------------- repositories
\* Each repository call takes fail: the driver reports an error. The result
\* of a read is [row, err].

UserRepository_GetByEmail(table, email, fail) ==
    LET rows == {id \in DOMAIN table : table[id].email = email} IN
    IF fail THEN [row |-> NoRow, err |-> Wrap(ErrDriver, "failed to get user by email")]
    ELSE IF rows = {} THEN [row |-> NoRow, err |-> Wrap(ErrNoRows, "failed to get user by email")]
    ELSE [row |-> table[CHOOSE id \in rows : TRUE], err |-> Nil]

UserRepository_GetByID(table, id, fail) ==
    IF fail THEN [row |-> NoRow, err |-> Wrap(ErrDriver, "failed to get user by id")]
    ELSE IF id \notin DOMAIN table THEN [row |-> NoRow, err |-> Wrap(ErrNoRows, "failed to get user by id")]
    ELSE [row |-> table[id], err |-> Nil]

AuthTokenRepository_GetByHash(table, tokenHash, fail) ==
    LET rows == {id \in DOMAIN table : table[id].token_hash = tokenHash} IN
    IF fail THEN [row |-> NoRow, err |-> Wrap(ErrDriver, "failed to get auth token by hash")]
    ELSE IF rows = {} THEN [row |-> NoRow, err |-> Wrap(ErrNoRows, "failed to get auth token by hash")]
    ELSE [row |-> table[CHOOSE id \in rows : TRUE], err |-> Nil]

PasswordResetRepository_GetByTokenHash(table, tokenHash, fail) ==
    LET rows == {id \in DOMAIN table : table[id].token_hash = tokenHash} IN
    IF fail THEN [row |-> NoRow, err |-> Wrap(ErrDriver, "failed to get password reset by token hash")]
    ELSE IF rows = {} THEN [row |-> NoRow, err |-> Wrap(ErrNoRows, "failed to get password reset by token hash")]
    ELSE [row |-> table[CHOOSE id \in rows : TRUE], err |-> Nil]

EmailVerificationRepository_GetByTokenHash(table, tokenHash, fail) ==
    LET rows == {id \in DOMAIN table : table[id].token_hash = tokenHash} IN
    IF fail THEN [row |-> NoRow, err |-> Wrap(ErrDriver, "failed to get email verification by token hash")]
    ELSE IF rows = {} THEN [row |-> NoRow, err |-> Wrap(ErrNoRows, "failed to get email verification by token hash")]
    ELSE [row |-> table[CHOOSE id \in rows : TRUE], err |-> Nil]

\* UPDATE users SET email_verified_at = $1 WHERE id = $3
MarkUserEmailVerified(table, id, at) ==
    [k \in DOMAIN table \cap {id} |-> [table[k] EXCEPT !.email_verified_at = at]]

\* UPDATE email_verifications SET used_at = $1 WHERE id = $2
MarkEmailVerificationUsed(table, id, at) ==
    [k \in DOMAIN table \cap {id} |-> [table[k] EXCEPT !.used_at = at]]

\* a bug: the statement matches no row, the user's other tokens stay usable
InvalidateAllVerifications_MatchesNothing(table, userID, at) ==
    [k \in {} |-> table[k]]

\* UPDATE email_verifications SET used_at = $1 WHERE user_id = $2 AND used_at IS NULL
InvalidateAllEmailVerificationsForUser(table, userID, at) ==
    [k \in {id \in DOMAIN table : table[id].user_id = userID /\ table[id].used_at = Null}
        |-> [table[k] EXCEPT !.used_at = at]]

\* DELETE FROM email_verifications WHERE expires_at < $1 OR used_at IS NOT NULL
DeleteExpiredOrUsedEmailVerifications(table, at) ==
    {id \in DOMAIN table : table[id].expires_at < at \/ table[id].used_at # Null}

\* UPDATE users SET password_hash = $1 WHERE id = $3: the rows it writes
UpdateUserPassword(table, id, hash) ==
    [k \in DOMAIN table \cap {id} |-> [table[k] EXCEPT !.password_hash = hash]]

\* UPDATE users SET deletion_scheduled_at = $1 WHERE id = $3
ScheduleUserDeletion(table, id, at) ==
    [k \in DOMAIN table \cap {id} |-> [table[k] EXCEPT !.deletion_scheduled_at = at]]

\* a bug: the statement matches no row, the schedule stays
CancelUserDeletion_MatchesNothing(table, id) ==
    [k \in {} |-> table[k]]

\* UPDATE users SET deletion_scheduled_at = NULL WHERE id = $2
CancelUserDeletion(table, id) ==
    [k \in DOMAIN table \cap {id} |-> [table[k] EXCEPT !.deletion_scheduled_at = Null]]

\* UPDATE password_resets SET used_at = $1 WHERE id = $2
MarkPasswordResetUsed(table, id, at) ==
    [k \in DOMAIN table \cap {id} |-> [table[k] EXCEPT !.used_at = at]]

\* a bug: the statement matches no row, the user's other tokens stay usable
InvalidateAll_MatchesNothing(table, userID, at) ==
    [k \in {} |-> table[k]]

\* UPDATE password_resets SET used_at = $1 WHERE user_id = $2 AND used_at IS NULL
InvalidateAllPasswordResetsForUser(table, userID, at) ==
    [k \in {id \in DOMAIN table : table[id].user_id = userID /\ table[id].used_at = Null}
        |-> [table[k] EXCEPT !.used_at = at]]

\* UPDATE auth_tokens SET revoked_at = $1 WHERE user_id = $2 AND revoked_at IS NULL
\* a bug: the statement clears revoked_at of a row that was revoked
RevokeAuthTokenByHash_Toggles(table, tokenHash, at) ==
    [k \in {id \in DOMAIN table : table[id].token_hash = tokenHash}
        |-> [table[k] EXCEPT !.revoked_at = IF @ = Null THEN at ELSE Null]]

\* a bug: the statement has no WHERE clause
RevokeAuthTokenByHash_AllRows(table, tokenHash, at) ==
    [k \in DOMAIN table |-> [table[k] EXCEPT !.revoked_at = at]]

\* UPDATE auth_tokens SET revoked_at = $1 WHERE token_hash = $2
RevokeAuthTokenByHash(table, tokenHash, at) ==
    [k \in {id \in DOMAIN table : table[id].token_hash = tokenHash}
        |-> [table[k] EXCEPT !.revoked_at = at]]

\* a bug: the statement does not look at user_id
RevokeAllAuthTokensForUser_EveryUser(table, userID, at) ==
    [k \in {id \in DOMAIN table : table[id].revoked_at = Null}
        |-> [table[k] EXCEPT !.revoked_at = at]]

RevokeAllAuthTokensForUser(table, userID, at) ==
    [k \in {id \in DOMAIN table : table[id].user_id = userID /\ table[id].revoked_at = Null}
        |-> [table[k] EXCEPT !.revoked_at = at]]

\* DELETE FROM auth_tokens WHERE expires_at < $1 OR revoked_at IS NOT NULL: the rows it deletes
DeleteExpiredOrRevokedAuthTokens(table, at) ==
    {id \in DOMAIN table : table[id].expires_at < at \/ table[id].revoked_at # Null}

\* a bug: the purge deletes every password reset
DeleteExpiredOrUsedPasswordResets_All(table, at) == DOMAIN table

\* DELETE FROM password_resets WHERE expires_at < $1 OR used_at IS NOT NULL
DeleteExpiredOrUsedPasswordResets(table, at) ==
    {id \in DOMAIN table : table[id].expires_at < at \/ table[id].used_at # Null}

\* a bug: every user with a scheduled deletion goes, whatever the deadline
DeleteScheduledUsers_IgnoresDeadline(table, at) ==
    {id \in DOMAIN table : table[id].deletion_scheduled_at # Null}

\* a bug: the statement matches no row, nobody is ever deleted
DeleteScheduledUsers_MatchesNothing(table, at) == {}

\* DELETE FROM users WHERE deletion_scheduled_at IS NOT NULL AND deletion_scheduled_at <= $1
DeleteScheduledUsers(table, at) ==
    {id \in DOMAIN table : table[id].deletion_scheduled_at # Null
                           /\ table[id].deletion_scheduled_at <= at}

\* a bug: the foreign keys do not cascade
Cascade_Nothing(table, userIDs) == {}

\* REFERENCES users(id) ON DELETE CASCADE: the token rows that go with the users
Cascade(table, userIDs) == {id \in DOMAIN table : table[id].user_id \in userIDs}

\* ------------------------------------------------------- SessionService

\* a bug: the expiry is checked before the revocation
ValidateToken_ExpiryFirst(token, fail) ==
    LET r == AuthTokenRepository_GetByHash(auth_tokens, HashToken(token), fail) IN
    IF r.err # Nil THEN
        IF Is(r.err, ErrNoRows) THEN [authToken |-> NoRow, err |-> ErrInvalidToken]
        ELSE [authToken |-> NoRow, err |-> Wrap(r.err, "failed to get auth token")]
    ELSE IF After(now, r.row.expires_at) THEN [authToken |-> NoRow, err |-> ErrTokenExpired]
    ELSE IF r.row.revoked_at # Null THEN [authToken |-> NoRow, err |-> ErrTokenRevoked]
    ELSE [authToken |-> r.row, err |-> Nil]

\* ValidateToken(token): [authToken, err]
ValidateToken(token, fail) ==
    LET r == AuthTokenRepository_GetByHash(auth_tokens, HashToken(token), fail) IN
    IF r.err # Nil THEN
        IF Is(r.err, ErrNoRows) THEN [authToken |-> NoRow, err |-> ErrInvalidToken]
        ELSE [authToken |-> NoRow, err |-> Wrap(r.err, "failed to get auth token")]
    ELSE IF r.row.revoked_at # Null THEN [authToken |-> NoRow, err |-> ErrTokenRevoked]
    ELSE IF After(now, r.row.expires_at) THEN [authToken |-> NoRow, err |-> ErrTokenExpired]
    ELSE [authToken |-> r.row, err |-> Nil]

Validate(w, token, fail) ==
    /\ Free(w)
    /\ ops' = ops + 1
    /\ LET v == ValidateToken(token, fail) IN
       Finish(w, [op |-> "validate", token |-> token,
                  authToken |-> v.authToken, err |-> v.err])
    /\ UNCHANGED <<email_verifications, users, auth_tokens, password_resets, now, tx, queue, sentry, cpc, cerr,
                   cleanups, minted, executed, issuedOn, scheduled, config>>

\* CreateForUser(userID): generateToken without a credential check, for the
\* handler that has just registered the user
CreateForUser(w, userID, fail) ==
    /\ Free(w)
    /\ minted.auth + LoginsInFlight < MaxAuthTokens
    /\ ops' = ops + 1
    /\ LET token == minted.auth + 1
           ttl == IF config.AuthTokenTTL = 0 THEN DefaultAuthTokenTTL
                  ELSE config.AuthTokenTTL
           expiresAt == now + ttl
           call == [op |-> "createForUser", userID |-> userID, token |-> 0, err |-> Nil]
       IN
       IF fail \/ userID \notin DOMAIN users THEN
            /\ Finish(w, [call EXCEPT !.err =
                   Wrap(Wrap(ErrDriver, "failed to create auth token"),
                        "failed to create auth token")])
            /\ UNCHANGED <<auth_tokens, issuedOn>>
       ELSE /\ auth_tokens' = Put(auth_tokens, token,
                                  AuthTokenRow(token, userID, HashToken(token), expiresAt))
            /\ issuedOn' = Put(issuedOn, token, users[userID].password_hash)
            /\ Finish(w, [call EXCEPT !.token = token])
    /\ minted' = [minted EXCEPT !.auth = @ + 1]
    /\ UNCHANGED <<email_verifications, users, password_resets, now, tx, queue, sentry, cpc, cerr,
                   cleanups, executed, scheduled, config>>

\* Delete(token): the row with the token's hash is revoked, whether or not it
\* was revoked before; wasRevoked remembers whether it was
SessionDelete(w, token, fail) ==
    /\ Free(w)
    /\ ops' = ops + 1
    /\ LET rows == RevokeAuthTokenByHash(auth_tokens, HashToken(token), now)
           call == [op |-> "logout", token |-> token, err |-> Nil,
                    wasRevoked |-> \E id \in DOMAIN rows : auth_tokens[id].revoked_at # Null]
       IN
       IF fail THEN
            /\ Finish(w, [call EXCEPT !.err =
                   Wrap(Wrap(ErrDriver, "failed to revoke auth token by hash"),
                        "failed to revoke token")])
            /\ UNCHANGED auth_tokens
       ELSE /\ DOMAIN rows \cap Locked(w, "auth_tokens") = {}
            /\ auth_tokens' = Overlay(auth_tokens, rows)
            /\ Finish(w, call)
    /\ UNCHANGED <<email_verifications, users, password_resets, now, tx, queue, sentry, cpc, cerr,
                   cleanups, minted, executed, issuedOn, scheduled, config>>

\* Create(email, password), up to the password check
SessionCreate(w, email, password, fail) ==
    /\ Free(w)
    /\ minted.auth + LoginsInFlight < MaxAuthTokens
    /\ ops' = ops + 1
    /\ scheduled' = 0
    /\ LET r == UserRepository_GetByEmail(users, email, fail)
           call == [op |-> "login", email |-> email, password |-> password,
                    user |-> r.row, token |-> 0, err |-> Nil,
                    cleared |-> FALSE, late |-> FALSE]
       IN
       IF r.err # Nil THEN
            IF Is(r.err, ErrNoRows)
            THEN Finish(w, [call EXCEPT !.err = ErrInvalidCredentials])
            ELSE Finish(w, [call EXCEPT !.err = Wrap(r.err, "failed to get user by email")])
       ELSE IF ~CompareHashAndPassword(r.row.password_hash, password)
            THEN Finish(w, [call EXCEPT !.user = NoRow, !.err = ErrInvalidCredentials])
       ELSE IF r.row.deletion_scheduled_at # Null
            THEN Goto(w, "login_cancel", call)
       ELSE Goto(w, "login_token", call)
    /\ UNCHANGED <<email_verifications, users, auth_tokens, password_resets, now, tx, queue, sentry, cpc, cerr,
                   cleanups, minted, executed, issuedOn, config>>

\* Create: userRepo.CancelDeletion for a user read with a scheduled deletion
SessionCreate_CancelDeletion(w, fail) ==
    /\ pc[w] = "login_cancel"
    /\ LET id == l[w].user.id IN
       IF fail THEN
            /\ Finish(w, [l[w] EXCEPT !.user = NoRow, !.err =
                   Wrap(Wrap(ErrDriver, "failed to cancel user deletion"), "failed to cancel deletion")])
            /\ UNCHANGED users
       ELSE /\ id \notin Locked(w, "users")
            /\ users' = Overlay(users, CancelUserDeletion(users, id))
            /\ Goto(w, "login_token",
                    [l[w] EXCEPT !.user.deletion_scheduled_at = Null,
                                 !.cleared = (id \in DOMAIN users
                                              /\ users[id].deletion_scheduled_at # Null),
                                 !.late = (id \in DOMAIN users
                                           /\ users[id].deletion_scheduled_at # Null
                                           /\ users[id].deletion_scheduled_at <= now)])
    /\ UNCHANGED <<email_verifications, auth_tokens, password_resets, now, tx, queue, sentry, cpc, cerr,
                   ops, cleanups, minted, executed, issuedOn, scheduled, config>>

\* a bug: a TTL of 0 is taken as it is
generateToken_NoDefault(w, fail) ==
    /\ pc[w] = "login_token"
    /\ LET token == minted.auth + 1
           expiresAt == now + config.AuthTokenTTL
           userID == l[w].user.id
       IN
       IF fail \/ userID \notin DOMAIN users THEN
            /\ Finish(w, [l[w] EXCEPT !.user = NoRow, !.err =
                   Wrap(Wrap(Wrap(ErrDriver, "failed to create auth token"),
                        "failed to create auth token"), "failed to generate token")])
            /\ UNCHANGED <<auth_tokens, issuedOn>>
       ELSE /\ auth_tokens' = Put(auth_tokens, token,
                                  AuthTokenRow(token, userID, HashToken(token), expiresAt))
            /\ issuedOn' = Put(issuedOn, token, l[w].user.password_hash)
            /\ Finish(w, [l[w] EXCEPT !.token = token])
    /\ minted' = [minted EXCEPT !.auth = @ + 1]
    /\ UNCHANGED <<email_verifications, users, password_resets, now, tx, queue, sentry, cpc, cerr,
                   ops, cleanups, executed, scheduled, config>>

\* generateToken(userID): the new raw token is the next one never generated
\* before; the INSERT needs the user row (foreign key)
generateToken(w, fail) ==
    /\ pc[w] = "login_token"
    /\ LET token == minted.auth + 1
           ttl == IF config.AuthTokenTTL = 0 THEN DefaultAuthTokenTTL
                  ELSE config.AuthTokenTTL
           expiresAt == now + ttl
           userID == l[w].user.id
       IN
       IF fail \/ userID \notin DOMAIN users THEN
            /\ Finish(w, [l[w] EXCEPT !.user = NoRow, !.err =
                   Wrap(Wrap(Wrap(ErrDriver, "failed to create auth token"),
                        "failed to create auth token"), "failed to generate token")])
            /\ UNCHANGED <<auth_tokens, issuedOn>>
       ELSE /\ auth_tokens' = Put(auth_tokens, token,
                                  AuthTokenRow(token, userID, HashToken(token), expiresAt))
            /\ issuedOn' = Put(issuedOn, token, l[w].user.password_hash)
            /\ Finish(w, [l[w] EXCEPT !.token = token])
    /\ minted' = [minted EXCEPT !.auth = @ + 1]
    /\ UNCHANGED <<email_verifications, users, password_resets, now, tx, queue, sentry, cpc, cerr,
                   ops, cleanups, executed, scheduled, config>>

\* ------------------------------------------------------- TxManager
\* what the statements of worker w's transaction read
View(w, table, committed) == Overlay(committed, tx[w][table])

\* RunInTx: tm.db.BeginTx, then fn(tx) from its first statement l[w].entry
RunInTx_Begin(w, fail) ==
    /\ pc[w] = "tx_begin"
    /\ IF fail THEN
            /\ Finish(w, [l[w] EXCEPT !.err = Wrap(ErrDriver, "failed to begin transaction")])
            /\ UNCHANGED tx
       ELSE /\ tx' = [tx EXCEPT ![w] = EmptyTx]
            /\ Goto(w, l[w].entry, [l[w] EXCEPT !.fnInvoked = TRUE])
    /\ UNCHANGED <<email_verifications, users, auth_tokens, password_resets, now, queue, sentry, cpc, cerr,
                   ops, cleanups, minted, executed, issuedOn, scheduled, config>>

\* a bug: RunInTx commits whatever fn returns
FnReturns_AlwaysCommits(w, err) ==
    Goto(w, "tx_commit", [l[w] EXCEPT !.fnErr = err])

\* fn returns err: RunInTx goes to tx.Commit when err is nil, else to tx.Rollback
FnReturns(w, err) ==
    Goto(w, IF err = Nil THEN "tx_commit" ELSE "tx_rollback", [l[w] EXCEPT !.fnErr = err])

\* RunInTx: fn returned an error; tx.Rollback, and the error goes to the caller
RunInTx_Rollback(w, fail) ==
    /\ pc[w] = "tx_rollback"
    /\ tx' = [tx EXCEPT ![w] = NoTx]
    /\ Finish(w, [l[w] EXCEPT
            !.txEnd = IF fail THEN "rollback failed" ELSE "rollback",
            !.err = IF fail THEN Wrap(l[w].fnErr, "rollback also failed: driver: bad connection")
                    ELSE l[w].fnErr])
    /\ UNCHANGED <<email_verifications, users, auth_tokens, password_resets, now, queue, sentry, cpc, cerr,
                   ops, cleanups, minted, executed, issuedOn, scheduled, config>>

\* a bug: RunInTx reports a failed commit as a success
RunInTx_Commit_HidesFailure(w, fail) ==
    /\ pc[w] = "tx_commit"
    /\ tx' = [tx EXCEPT ![w] = NoTx]
    /\ IF fail THEN
            /\ Goto(w, l[w].after, [l[w] EXCEPT !.txEnd = "commit failed"])
            /\ UNCHANGED <<users, auth_tokens, password_resets, email_verifications, executed>>
       ELSE /\ users' = Overlay(users, tx[w].users)
            /\ email_verifications' = Overlay(email_verifications, tx[w].email_verifications)
            /\ auth_tokens' = Overlay(auth_tokens, tx[w].auth_tokens)
            /\ password_resets' = Overlay(password_resets, tx[w].password_resets)
            /\ Goto(w, l[w].after, [l[w] EXCEPT !.txEnd = "commit"])
            /\ executed' = IF l[w].op = "execute"
                           THEN [executed EXCEPT ![l[w].token] = @ + 1]
                           ELSE executed
    /\ UNCHANGED <<now, queue, sentry, cpc, cerr, ops, cleanups, minted, issuedOn, scheduled, config>>

\* RunInTx: fn returned nil; tx.Commit makes the transaction's writes visible
RunInTx_Commit(w, fail) ==
    /\ pc[w] = "tx_commit"
    /\ tx' = [tx EXCEPT ![w] = NoTx]
    /\ IF fail THEN
            /\ Finish(w, [l[w] EXCEPT !.txEnd = "commit failed",
                                      !.err = Wrap(ErrDriver, "failed to commit transaction")])
            /\ UNCHANGED <<users, auth_tokens, password_resets, email_verifications, executed>>
       ELSE /\ users' = Overlay(users, tx[w].users)
            /\ email_verifications' = Overlay(email_verifications, tx[w].email_verifications)
            /\ auth_tokens' = Overlay(auth_tokens, tx[w].auth_tokens)
            /\ password_resets' = Overlay(password_resets, tx[w].password_resets)
            /\ Goto(w, l[w].after, [l[w] EXCEPT !.txEnd = "commit"])
            /\ executed' = IF l[w].op = "execute"
                           THEN [executed EXCEPT ![l[w].token] = @ + 1]
                           ELSE executed
    /\ UNCHANGED <<now, queue, sentry, cpc, cerr, ops, cleanups, minted, issuedOn, scheduled, config>>

\* a statement of fn that writes rows of one table, or fails with err
TxWrite(w, step, next, table, rows, fail, err) ==
    /\ pc[w] = step
    /\ IF fail THEN
            /\ FnReturns(w, err)
            /\ UNCHANGED tx
       ELSE /\ DOMAIN rows \cap Locked(w, table) = {}
            /\ tx' = [tx EXCEPT ![w][table] = Merge(@, rows)]
            /\ IF next = "tx_commit" THEN FnReturns(w, Nil)
               ELSE Goto(w, next, l[w])
    /\ UNCHANGED <<email_verifications, users, auth_tokens, password_resets, now, queue, sentry, cpc, cerr,
                   ops, cleanups, minted, executed, issuedOn, scheduled, config>>

\* ------------------------------------------------- PasswordResetService
ResetsInFlight == Cardinality({v \in Workers : pc[v] = "reset_create"})

\* bcrypt.GenerateFromPassword: [hash, err]
GenerateFromPassword(password) ==
    IF password = 0 THEN [hash |-> <<>>, err |-> <<"bcrypt: password length exceeds 72 bytes">>]
    ELSE [hash |-> BcryptHash(password), err |-> Nil]

\* Create(email), up to the token hash
PasswordResetCreate(w, email, fail) ==
    /\ Free(w)
    /\ minted.reset + ResetsInFlight < MaxPasswordResets
    /\ ops' = ops + 1
    /\ LET r == UserRepository_GetByEmail(users, email, fail)
           call == [op |-> "requestReset", email |-> email, user |-> r.row,
                    token |-> 0, err |-> Nil]
       IN
       IF r.err # Nil THEN
            IF Is(r.err, ErrNoRows) THEN Finish(w, call)
            ELSE Finish(w, [call EXCEPT !.err = Wrap(r.err, "failed to get user by email")])
       ELSE Goto(w, "reset_create", call)
    /\ UNCHANGED <<email_verifications, users, auth_tokens, password_resets, now, tx, queue, sentry, cpc, cerr,
                   cleanups, minted, executed, issuedOn, scheduled, config>>

\* Create: passwordResetRepo.Create with a newly generated token
PasswordResetCreate_Insert(w, fail) ==
    /\ pc[w] = "reset_create"
    /\ LET token == minted.reset + 1
           expiresAt == now + PasswordResetTokenTTL
           userID == l[w].user.id
       IN
       IF fail \/ userID \notin DOMAIN users THEN
            /\ Finish(w, [l[w] EXCEPT !.err =
                   Wrap(Wrap(ErrDriver, "failed to create password reset"),
                        "failed to create password reset")])
            /\ UNCHANGED password_resets
       ELSE /\ password_resets' = Put(password_resets, token,
                    PasswordResetRow(token, userID, HashToken(token), expiresAt))
            /\ Goto(w, "reset_enqueue", [l[w] EXCEPT !.token = token])
    /\ minted' = [minted EXCEPT !.reset = @ + 1]
    /\ UNCHANGED <<email_verifications, users, auth_tokens, now, tx, queue, sentry, cpc, cerr,
                   ops, cleanups, executed, issuedOn, scheduled, config>>

\* TaskClient.EnqueueCtx: the task reaches the broker unless the enqueue fails,
\* and the caller is told nothing
EnqueueCtx(task, fail) == IF fail THEN queue ELSE queue \cup {task}

\* a bug: the error of a failed enqueue is dropped
CaptureError_Drops(task, fail) == sentry

\* EnqueueCtx: sentry.CaptureError with the error of a failed enqueue
CaptureError(task, fail) == IF fail THEN sentry \cup {task} ELSE sentry

\* Create: the email task with the reset link, then return nil
PasswordResetCreate_Enqueue(w, fail) ==
    /\ pc[w] = "reset_enqueue"
    /\ queue' = EnqueueCtx([template |-> "password-reset", to |-> l[w].user.email,
                            token |-> l[w].token], fail)
    /\ sentry' = CaptureError([template |-> "password-reset", to |-> l[w].user.email,
                               token |-> l[w].token], fail)
    /\ Finish(w, l[w])
    /\ UNCHANGED <<email_verifications, users, auth_tokens, password_resets, now, tx, cpc, cerr,
                   ops, cleanups, minted, executed, issuedOn, scheduled, config>>

\* http.StatusAccepted
StatusAccepted == 202

\* a bug: the handler passes the service's error on to the caller
PasswordResetHandler_Create_ReturnsError(err) ==
    IF err # Nil THEN 500 ELSE StatusAccepted

\* PasswordResetHandler.Create, for a request that binds and validates: the
\* status sent for the error that PasswordResetService.Create returned; an
\* error is logged and not returned
PasswordResetHandler_Create(err) ==
    IF err # Nil THEN StatusAccepted ELSE StatusAccepted

\* a bug: a used token is accepted again
Execute_Check_IgnoresUsed(reset) ==
    IF After(now, reset.expires_at) THEN ErrTokenExpired ELSE Nil

\* Execute: the checks on the password reset that was read
Execute_Check(reset) ==
    IF reset.used_at # Null THEN ErrTokenAlreadyUsed
    ELSE IF After(now, reset.expires_at) THEN ErrTokenExpired
    ELSE Nil

\* Execute(token, newPassword), up to RunInTx
PasswordResetExecute(w, token, newPassword, fail) ==
    /\ Free(w)
    /\ ops' = ops + 1
    /\ LET r == PasswordResetRepository_GetByTokenHash(password_resets, HashToken(token), fail)
           h == GenerateFromPassword(newPassword)
           call == [op |-> "execute", token |-> token, newPassword |-> newPassword,
                    reset |-> r.row, passwordHash |-> h.hash,
                    entry |-> "execute_password", after |-> "idle",
                    fnInvoked |-> FALSE, fnErr |-> Nil, txEnd |-> "none", err |-> Nil,
                    usedBefore |-> executed[token] > 0,
                    sessionsBefore |-> {}, resetsBefore |-> {}]
       IN
       IF r.err # Nil THEN
            IF Is(r.err, ErrNoRows) THEN Finish(w, [call EXCEPT !.err = ErrInvalidResetToken])
            ELSE Finish(w, [call EXCEPT !.err =
                        Wrap(r.err, "failed to get password reset by token hash")])
       ELSE IF Execute_Check(r.row) # Nil THEN Finish(w, [call EXCEPT !.err = Execute_Check(r.row)])
       ELSE IF h.err # Nil THEN Finish(w, [call EXCEPT !.err = Wrap(h.err, "failed to hash password")])
       ELSE Goto(w, "tx_begin",
                 [call EXCEPT !.sessionsBefore = {id \in DOMAIN auth_tokens :
                                                    auth_tokens[id].user_id = r.row.user_id},
                              !.resetsBefore = {id \in DOMAIN password_resets :
                                                  password_resets[id].user_id = r.row.user_id}])
    /\ UNCHANGED <<email_verifications, users, auth_tokens, password_resets, now, tx, queue, sentry, cpc, cerr,
                   cleanups, minted, executed, issuedOn, scheduled, config>>

\* Execute, in the transaction: txUserRepo.UpdatePassword
Execute_UpdatePassword(w, fail) ==
    TxWrite(w, "execute_password", "execute_mark", "users",
            UpdateUserPassword(View(w, "users", users), l[w].reset.user_id, l[w].passwordHash),
            fail, Wrap(Wrap(ErrDriver, "failed to update user password"),
                       "failed to update password"))

\* Execute, in the transaction: txPasswordResetRepo.MarkUsed
Execute_MarkUsed(w, fail) ==
    TxWrite(w, "execute_mark", "execute_invalidate", "password_resets",
            MarkPasswordResetUsed(View(w, "password_resets", password_resets), l[w].reset.id, now),
            fail, Wrap(Wrap(ErrDriver, "failed to mark password reset as used"),
                       "failed to mark password reset as used"))

\* Execute, in the transaction: txPasswordResetRepo.InvalidateAllForUser
Execute_InvalidateAllForUser(w, fail) ==
    TxWrite(w, "execute_invalidate", "execute_revoke", "password_resets",
            InvalidateAllPasswordResetsForUser(View(w, "password_resets", password_resets),
                                               l[w].reset.user_id, now),
            fail, Wrap(Wrap(ErrDriver, "failed to invalidate all password resets for user"),
                       "failed to invalidate password resets for user"))

\* Execute, in the transaction: txAuthTokenRepo.RevokeAllForUser, then return nil
Execute_RevokeAllForUser(w, fail) ==
    TxWrite(w, "execute_revoke", "tx_commit", "auth_tokens",
            RevokeAllAuthTokensForUser(View(w, "auth_tokens", auth_tokens),
                                       l[w].reset.user_id, now),
            fail, Wrap(Wrap(ErrDriver, "failed to revoke all auth tokens for user"),
                       "failed to revoke auth tokens for user"))

\* --------------------------------------------- EmailVerificationService
\* a worker is free to take a call of the email verification scenario
FreeForVerification(w) ==
    /\ pc[w] = "idle"
    /\ ops < MaxVerificationOps
    /\ \A v \in Workers : v < w => pc[v] # "idle"

SendsInFlight ==
    Cardinality({v \in Workers : pc[v] \in {"resend_send", "send_invalidate", "send_create"}})

\* Send(userID), up to the token hash
Send(w, userID, fail) ==
    /\ FreeForVerification(w)
    /\ minted.verification + SendsInFlight < MaxEmailVerifications
    /\ ops' = ops + 1
    /\ LET r == UserRepository_GetByID(users, userID, fail)
           call == [op |-> "send", userID |-> userID, user |-> r.row,
                    token |-> 0, err |-> Nil, mintedBefore |-> 0]
       IN
       IF r.err # Nil THEN Finish(w, [call EXCEPT !.err = Wrap(r.err, "failed to get user by id")])
       ELSE IF r.row.email_verified_at # Null
            THEN Finish(w, [call EXCEPT !.err = ErrEmailAlreadyVerified])
       ELSE Goto(w, "send_invalidate", call)
    /\ UNCHANGED <<users, auth_tokens, password_resets, email_verifications, now, tx,
                   queue, sentry, cpc, cerr, cleanups, minted, executed, issuedOn, scheduled, config>>

\* Send: emailVerificationRepo.InvalidateAllForUser, a statement of its own;
\* mintedBefore remembers how many tokens had been generated by then
Send_InvalidateAllForUser(w, fail) ==
    /\ pc[w] = "send_invalidate"
    /\ LET rows == InvalidateAllEmailVerificationsForUser(email_verifications, l[w].userID, now) IN
       IF fail THEN
            /\ Finish(w, [l[w] EXCEPT !.err =
                   Wrap(Wrap(ErrDriver, "failed to invalidate all email verifications for user"),
                        "failed to invalidate email verifications for user")])
            /\ UNCHANGED email_verifications
       ELSE /\ DOMAIN rows \cap Locked(w, "email_verifications") = {}
            /\ email_verifications' = Overlay(email_verifications, rows)
            /\ Goto(w, "send_create", [l[w] EXCEPT !.mintedBefore = minted.verification])
    /\ UNCHANGED <<users, auth_tokens, password_resets, now, tx, queue, sentry, cpc, cerr,
                   ops, cleanups, minted, executed, issuedOn, scheduled, config>>

\* Send: emailVerificationRepo.Create with the newly generated token
Send_Create(w, fail) ==
    /\ pc[w] = "send_create"
    /\ LET token == minted.verification + 1
           expiresAt == now + EmailConfirmationTokenTTL
           userID == l[w].userID
       IN
       IF fail \/ userID \notin DOMAIN users THEN
            /\ Finish(w, [l[w] EXCEPT !.err =
                   Wrap(Wrap(ErrDriver, "failed to create email verification"),
                        "failed to create email verification")])
            /\ UNCHANGED email_verifications
       ELSE /\ email_verifications' = Put(email_verifications, token,
                    EmailVerificationRow(token, userID, HashToken(token), expiresAt))
            /\ Goto(w, "send_enqueue", [l[w] EXCEPT !.token = token])
    /\ minted' = [minted EXCEPT !.verification = @ + 1]
    /\ UNCHANGED <<users, auth_tokens, password_resets, now, tx, queue, sentry, cpc, cerr,
                   ops, cleanups, executed, issuedOn, scheduled, config>>

\* Send: the email task with the verification link, then return nil
Send_Enqueue(w, fail) ==
    /\ pc[w] = "send_enqueue"
    /\ queue' = EnqueueCtx([template |-> "email-verification", to |-> l[w].user.email,
                            token |-> l[w].token], fail)
    /\ sentry' = CaptureError([template |-> "email-verification", to |-> l[w].user.email,
                               token |-> l[w].token], fail)
    /\ Finish(w, l[w])
    /\ UNCHANGED <<users, auth_tokens, password_resets, email_verifications, now, tx, cpc, cerr,
                   ops, cleanups, minted, executed, issuedOn, scheduled, config>>

\* Resend(email), up to the call of Send
Resend(w, email, fail) ==
    /\ FreeForVerification(w)
    /\ minted.verification + SendsInFlight < MaxEmailVerifications
    /\ ops' = ops + 1
    /\ LET r == UserRepository_GetByEmail(users, email, fail)
           call == [op |-> "resend", email |-> email,
                    userID |-> IF r.row.found THEN r.row.id ELSE Null,
                    user |-> r.row, token |-> 0, err |-> Nil, mintedBefore |-> 0]
       IN
       IF r.err # Nil THEN
            IF Is(r.err, ErrNoRows) THEN Finish(w, call)
            ELSE Finish(w, [call EXCEPT !.err = Wrap(r.err, "failed to get user by email")])
       ELSE IF r.row.email_verified_at # Null THEN Finish(w, call)
       ELSE Goto(w, "resend_send", call)
    /\ UNCHANGED <<users, auth_tokens, password_resets, email_verifications, now, tx,
                   queue, sentry, cpc, cerr, cleanups, minted, executed, issuedOn, scheduled, config>>

\* Resend: s.Send(ctx, user.ID), up to the token hash; Send reads the user
\* again
Resend_Send(w, fail) ==
    /\ pc[w] = "resend_send"
    /\ LET r == UserRepository_GetByID(users, l[w].userID, fail) IN
       IF r.err # Nil
       THEN Finish(w, [l[w] EXCEPT !.user = r.row,
                                   !.err = Wrap(r.err, "failed to get user by id")])
       ELSE IF r.row.email_verified_at # Null
            THEN Finish(w, [l[w] EXCEPT !.user = r.row, !.err = ErrEmailAlreadyVerified])
       ELSE Goto(w, "send_invalidate", [l[w] EXCEPT !.user = r.row])
    /\ UNCHANGED <<users, auth_tokens, password_resets, email_verifications, now, tx,
                   queue, sentry, cpc, cerr, ops, cleanups, minted, executed, issuedOn, scheduled, config>>

\* a bug: the expiry is checked before used_at
Verify_Check_ExpiryFirst(verification) ==
    IF After(now, verification.expires_at) THEN ErrTokenExpired
    ELSE IF verification.used_at # Null THEN ErrTokenAlreadyUsed
    ELSE Nil

\* Verify: the checks on the email verification that was read
Verify_Check(verification) ==
    IF verification.used_at # Null THEN ErrTokenAlreadyUsed
    ELSE IF After(now, verification.expires_at) THEN ErrTokenExpired
    ELSE Nil

\* Verify(token), up to RunInTx
Verify(w, token, fail) ==
    /\ FreeForVerification(w)
    /\ ops' = ops + 1
    /\ LET r == EmailVerificationRepository_GetByTokenHash(email_verifications,
                                                           HashToken(token), fail)
           call == [op |-> "verify", token |-> token, verification |-> r.row,
                    entry |-> "verify_user", after |-> "idle",
                    fnInvoked |-> FALSE, fnErr |-> Nil, txEnd |-> "none", err |-> Nil,
                    verificationsBefore |-> {}]
       IN
       IF r.err # Nil THEN
            IF Is(r.err, ErrNoRows) THEN Finish(w, [call EXCEPT !.err = ErrInvalidVerificationToken])
            ELSE Finish(w, [call EXCEPT !.err =
                        Wrap(r.err, "failed to get email verification by token hash")])
       ELSE IF Verify_Check(r.row) # Nil THEN Finish(w, [call EXCEPT !.err = Verify_Check(r.row)])
       ELSE Goto(w, "tx_begin",
                 [call EXCEPT !.verificationsBefore =
                        {id \in DOMAIN email_verifications :
                            /\ email_verifications[id].user_id = r.row.user_id
                            /\ email_verifications[id].used_at = Null}])
    /\ UNCHANGED <<users, auth_tokens, password_resets, email_verifications, now, tx,
                   queue, sentry, cpc, cerr, cleanups, minted, executed, issuedOn, scheduled, config>>

\* Verify, in the transaction: txUserRepo.MarkEmailVerified
Verify_MarkEmailVerified(w, fail) ==
    TxWrite(w, "verify_user", "verify_mark", "users",
            MarkUserEmailVerified(View(w, "users", users), l[w].verification.user_id, now),
            fail, Wrap(Wrap(ErrDriver, "failed to mark email as verified"),
                       "failed to mark email as verified"))

\* Verify, in the transaction: txEmailVerificationRepo.MarkUsed
Verify_MarkUsed(w, fail) ==
    TxWrite(w, "verify_mark", "verify_invalidate", "email_verifications",
            MarkEmailVerificationUsed(View(w, "email_verifications", email_verifications),
                                      l[w].verification.id, now),
            fail, Wrap(Wrap(ErrDriver, "failed to mark email verification as used"),
                       "failed to mark email verification as used"))

\* Verify, in the transaction: txEmailVerificationRepo.InvalidateAllForUser,
\* then return nil
Verify_InvalidateAllForUser(w, fail) ==
    TxWrite(w, "verify_invalidate", "tx_commit", "email_verifications",
            InvalidateAllEmailVerificationsForUser(
                View(w, "email_verifications", email_verifications),
                l[w].verification.user_id, now),
            fail, Wrap(Wrap(ErrDriver, "failed to invalidate all email verifications for user"),
                       "failed to invalidate email verifications for user"))

\* ------------------------------------------------------- UserService
\* ScheduleDeletion(userID), up to RunInTx
ScheduleDeletion(w, userID) ==
    /\ Free(w)
    /\ ops' = ops + 1
    /\ Goto(w, "tx_begin",
            [op |-> "scheduleDeletion", userID |-> userID,
             scheduledAt |-> now + AccountDeletionDelay, userEmail |-> 0,
             entry |-> "schedule_get", after |-> "schedule_enqueue",
             fnInvoked |-> FALSE, fnErr |-> Nil, txEnd |-> "none", err |-> Nil,
             sessionsBefore |-> {id \in DOMAIN auth_tokens : auth_tokens[id].user_id = userID}])
    /\ UNCHANGED <<email_verifications, users, auth_tokens, password_resets, now, tx, queue, sentry, cpc, cerr,
                   cleanups, minted, executed, issuedOn, scheduled, config>>

\* a bug: a deletion that is already scheduled is scheduled again
ScheduleDeletion_GetByID_NoCheck(w, fail) ==
    /\ pc[w] = "schedule_get"
    /\ LET r == UserRepository_GetByID(View(w, "users", users), l[w].userID, fail) IN
       IF r.err # Nil THEN
            IF Is(r.err, ErrNoRows) THEN FnReturns(w, ErrUserNotFound)
            ELSE FnReturns(w, Wrap(r.err, "failed to get user by ID"))
       ELSE Goto(w, "schedule_update", [l[w] EXCEPT !.userEmail = r.row.email])
    /\ UNCHANGED <<email_verifications, users, auth_tokens, password_resets, now, tx, queue, sentry, cpc, cerr,
                   ops, cleanups, minted, executed, issuedOn, scheduled, config>>

\* ScheduleDeletion, in the transaction: userRepoTx.GetByID and the two checks
ScheduleDeletion_GetByID(w, fail) ==
    /\ pc[w] = "schedule_get"
    /\ LET r == UserRepository_GetByID(View(w, "users", users), l[w].userID, fail) IN
       IF r.err # Nil THEN
            IF Is(r.err, ErrNoRows) THEN FnReturns(w, ErrUserNotFound)
            ELSE FnReturns(w, Wrap(r.err, "failed to get user by ID"))
       ELSE IF r.row.deletion_scheduled_at # Null THEN FnReturns(w, ErrDeletionAlreadyScheduled)
       ELSE Goto(w, "schedule_update", [l[w] EXCEPT !.userEmail = r.row.email])
    /\ UNCHANGED <<email_verifications, users, auth_tokens, password_resets, now, tx, queue, sentry, cpc, cerr,
                   ops, cleanups, minted, executed, issuedOn, scheduled, config>>

\* ScheduleDeletion, in the transaction: userRepoTx.ScheduleDeletion
ScheduleDeletion_Update(w, fail) ==
    TxWrite(w, "schedule_update", "schedule_revoke", "users",
            ScheduleUserDeletion(View(w, "users", users), l[w].userID, l[w].scheduledAt),
            fail, Wrap(Wrap(ErrDriver, "failed to schedule user deletion"),
                       "failed to schedule user deletion"))

\* ScheduleDeletion, in the transaction: authTokenRepoTx.RevokeAllForUser, then return nil
ScheduleDeletion_RevokeAllForUser(w, fail) ==
    TxWrite(w, "schedule_revoke", "tx_commit", "auth_tokens",
            RevokeAllAuthTokensForUser(View(w, "auth_tokens", auth_tokens), l[w].userID, now),
            fail, Wrap(Wrap(ErrDriver, "failed to revoke all auth tokens for user"),
                       "failed to revoke all auth tokens for user"))

\* ScheduleDeletion, after RunInTx returned nil: the notification email, return nil
ScheduleDeletion_Enqueue(w, fail) ==
    /\ pc[w] = "schedule_enqueue"
    /\ queue' = EnqueueCtx([template |-> "account-deletion-scheduled",
                            to |-> l[w].userEmail, token |-> 0], fail)
    /\ sentry' = CaptureError([template |-> "account-deletion-scheduled",
                               to |-> l[w].userEmail, token |-> 0], fail)
    /\ scheduled' = scheduled + 1
    /\ Finish(w, l[w])
    /\ UNCHANGED <<email_verifications, users, auth_tokens, password_resets, now, tx, cpc, cerr,
                   ops, cleanups, minted, executed, issuedOn, config>>

\* SELECT EXISTS(SELECT 1 FROM users WHERE email = $1)
EmailExists(table, email) == \E id \in DOMAIN table : table[id].email = email

\* CONSTRAINT uq_users_email UNIQUE (email): may a row with the email go in
uq_users_email(table, email) == \A id \in DOMAIN table : table[id].email # email

RegistrationsInFlight == Cardinality({v \in Workers : pc[v] = "user_create"})

\* Create(name, email, password), up to the password hash
UserCreate(w, email, password, fail) ==
    /\ Free(w)
    /\ minted.user + RegistrationsInFlight < MaxUsers
    /\ ops' = ops + 1
    /\ LET h == GenerateFromPassword(password)
           call == [op |-> "register", email |-> email, password |-> password,
                    passwordHash |-> h.hash, user |-> NoRow, err |-> Nil]
       IN
       IF fail THEN
            Finish(w, [call EXCEPT !.err =
                Wrap(Wrap(ErrDriver, "failed to check if email exists"),
                     "failed to check if email exists")])
       ELSE IF EmailExists(users, email) THEN Finish(w, [call EXCEPT !.err = ErrEmailAlreadyExists])
       ELSE IF h.err # Nil
            THEN Finish(w, [call EXCEPT !.err = Wrap(h.err, "failed to generate password hash")])
       ELSE Goto(w, "user_create", call)
    /\ UNCHANGED <<email_verifications, users, auth_tokens, password_resets, now, tx, queue,
                   sentry, cpc, cerr, cleanups, minted, executed, issuedOn, scheduled, config>>

\* Create: userRepo.Create, an INSERT with a new id; the unique constraint on
\* the email rejects a second row with the email
UserCreate_Insert(w, fail) ==
    /\ pc[w] = "user_create"
    /\ LET id == minted.user + 1
           row == [UserRow(id, l[w].passwordHash) EXCEPT !.email = l[w].email]
       IN
       IF fail THEN
            /\ Finish(w, [l[w] EXCEPT !.err = Wrap(ErrDriver, "failed to create user")])
            /\ UNCHANGED users
       ELSE IF ~uq_users_email(users, l[w].email) THEN
            /\ Finish(w, [l[w] EXCEPT !.err = Wrap(ErrUniqueViolation, "failed to create user")])
            /\ UNCHANGED users
       ELSE /\ users' = Put(users, id, row)
            /\ Finish(w, [l[w] EXCEPT !.user = row])
    /\ minted' = [minted EXCEPT !.user = @ + 1]
    /\ UNCHANGED <<email_verifications, auth_tokens, password_resets, now, tx, queue,
                   sentry, cpc, cerr, ops, cleanups, executed, issuedOn, scheduled, config>>

\* ------------------------------------------------------- CleanupTask
\* Handle: authTokenRepo.DeleteExpiredOrRevoked
Cleanup_AuthTokens(fail) ==
    /\ cpc = "idle"
    /\ cleanups < MaxCleanupRuns
    /\ cleanups' = cleanups + 1
    /\ LET gone == DeleteExpiredOrRevokedAuthTokens(auth_tokens, now) IN
       IF fail THEN
            /\ cpc' = "idle" /\ UNCHANGED auth_tokens
            /\ cerr' = Wrap(Wrap(ErrDriver, "failed to delete expired or revoked auth tokens"),
                            "failed to cleanup auth tokens")
       ELSE /\ gone \cap LockedAny("auth_tokens") = {}
            /\ auth_tokens' = Drop(auth_tokens, gone)
            /\ cpc' = "password_resets"
            /\ cerr' = Nil
    /\ UNCHANGED <<email_verifications, users, password_resets, now, pc, l, tx, queue, sentry,
                   ops, minted, executed, issuedOn, scheduled, config>>

\* a bug: the error of the purge is dropped and the run goes on
Cleanup_PasswordResets_GoesOn(fail) ==
    /\ cpc = "password_resets"
    /\ cpc' = "email_verifications"
    /\ LET gone == DeleteExpiredOrUsedPasswordResets(password_resets, now) IN
       IF fail THEN UNCHANGED password_resets
       ELSE /\ gone \cap LockedAny("password_resets") = {}
            /\ password_resets' = Drop(password_resets, gone)
    /\ UNCHANGED <<email_verifications, users, auth_tokens, now, pc, l, tx, queue, sentry,
                   cerr, ops, cleanups, minted, executed, issuedOn, scheduled, config>>

\* Handle: passwordResetRepo.DeleteExpiredOrUsed
Cleanup_PasswordResets(fail) ==
    /\ cpc = "password_resets"
    /\ LET gone == DeleteExpiredOrUsedPasswordResets(password_resets, now) IN
       IF fail THEN
            /\ cpc' = "idle" /\ UNCHANGED password_resets
            /\ cerr' = Wrap(Wrap(ErrDriver, "failed to delete expired or used password resets"),
                            "failed to cleanup password reset tokens")
       ELSE /\ gone \cap LockedAny("password_resets") = {}
            /\ password_resets' = Drop(password_resets, gone)
            /\ cpc' = "email_verifications"
            /\ cerr' = Nil
    /\ UNCHANGED <<email_verifications, users, auth_tokens, now, pc, l, tx, queue, sentry,
                   ops, cleanups, minted, executed, issuedOn, scheduled, config>>

\* Handle: emailVerificationRepo.DeleteExpiredOrUsed
Cleanup_EmailVerifications(fail) ==
    /\ cpc = "email_verifications"
    /\ LET gone == DeleteExpiredOrUsedEmailVerifications(email_verifications, now) IN
       IF fail THEN
            /\ cpc' = "idle" /\ UNCHANGED email_verifications
            /\ cerr' = Wrap(Wrap(ErrDriver, "failed to delete expired or used email verifications"),
                            "failed to cleanup email verification tokens")
       ELSE /\ gone \cap LockedAny("email_verifications") = {}
            /\ email_verifications' = Drop(email_verifications, gone)
            /\ cpc' = "users"
            /\ cerr' = Nil
    /\ UNCHANGED <<users, auth_tokens, password_resets, now, pc, l, tx, queue, sentry,
                   ops, cleanups, minted, executed, issuedOn, scheduled, config>>

\* Handle: userRepo.DeleteScheduledUsers; the users' tokens go with them
Cleanup_Users(fail) ==
    /\ cpc = "users"
    /\ cpc' = "idle"
    /\ LET gone == DeleteScheduledUsers(users, now) IN
       IF fail THEN
            /\ UNCHANGED <<users, auth_tokens, password_resets, email_verifications>>
            /\ cerr' = Wrap(Wrap(ErrDriver, "failed to delete scheduled users"),
                            "failed to delete scheduled users")
       ELSE /\ cerr' = Nil
            /\ gone \cap LockedAny("users") = {}
            /\ Cascade(email_verifications, gone) \cap LockedAny("email_verifications") = {}
            /\ email_verifications' = Drop(email_verifications, Cascade(email_verifications, gone))
            /\ Cascade(auth_tokens, gone) \cap LockedAny("auth_tokens") = {}
            /\ Cascade(password_resets, gone) \cap LockedAny("password_resets") = {}
            /\ users' = Drop(users, gone)
            /\ auth_tokens' = Drop(auth_tokens, Cascade(auth_tokens, gone))
            /\ password_resets' = Drop(password_resets, Cascade(password_resets, gone))
    /\ UNCHANGED <<now, pc, l, tx, queue, sentry, ops, cleanups, minted, executed, issuedOn, scheduled, config>>

\* ------------------------------------------------------- handlers
\* the sentinel errors of app/errors, each an AppError
AppErrors ==
    {ErrInvalidCredentials, ErrInvalidToken, ErrTokenExpired, ErrTokenRevoked,
     ErrTokenAlreadyUsed, ErrInvalidResetToken, ErrInvalidVerificationToken,
     ErrUserNotFound, ErrEmailAlreadyExists, ErrEmailAlreadyVerified,
     ErrDeletionAlreadyScheduled}

\* AppError.StatusCode: Unauthorized is 401, NotFoundf is 404, New is 422
StatusCode(err) ==
    IF err \in {ErrInvalidCredentials, ErrInvalidToken, ErrTokenExpired, ErrTokenRevoked}
    THEN 401
    ELSE IF err = ErrUserNotFound THEN 404
    ELSE 422

\* what the handler of a call returns to Echo when the service returned err:
\* every handler wraps the service's error with eris.Wrap
HandlerError(op, err) ==
    IF err = Nil THEN Nil
    ELSE Wrap(err, CASE op = "login" -> "failed to create session"
                     [] op = "createForUser" -> "failed to create session"
                     [] op = "logout" -> "failed to delete session"
                     [] op = "register" -> "failed to create user"
                     [] op = "execute" -> "failed to reset password"
                     [] op = "scheduleDeletion" -> "failed to schedule deletion"
                     [] op = "send" -> "failed to send email verification"
                     [] op = "verify" -> "failed to verify email"
                     [] OTHER -> "failed")

\* support/errors.Is: the error itself is an AppError; a type assertion, which
\* does not look into a wrapped error
errors_Is(err) == Len(err) = 1 /\ err \in AppErrors

\* ErrorHandler: the status and code of the response for a non-nil error
\* that is no echo.HTTPError
ErrorHandler(err) ==
    IF errors_Is(err) THEN [status |-> StatusCode(err), code |-> err[1]]
    ELSE [status |-> 500, code |-> "INTERNAL_ERROR"]

\* ------------------------------------------------------- middlewares
\* the request URI of a call that came in over HTTP: the routes that carry a
\* raw token in the path are PUT /password-resets/:token and
\* PUT /email-verifications/:token
RequestURI(call) ==
    IF call.op = "execute" THEN [path |-> "/password-resets/", token |-> call.token]
    ELSE IF call.op = "verify" THEN [path |-> "/email-verifications/", token |-> call.token]
    ELSE [path |-> call.op, token |-> Null]

\* LoggerMiddleware: the "request" log line of each request that has
\* returned, with the request URI in it
LoggerMiddleware ==
    {RequestURI(l[w]) : w \in {v \in Workers : pc[v] = "idle" /\ l[v].op # "none"}}

\* ------------------------------------------------------- specifications
Login ==
    \/ \E w \in Workers, email \in Emails, password \in Passwords, fail \in BOOLEAN :
            SessionCreate(w, email, password, fail)
    \/ \E w \in Workers, fail \in BOOLEAN : SessionCreate_CancelDeletion(w, fail)
    \/ \E w \in Workers, fail \in BOOLEAN : generateToken(w, fail)

ValidateCall ==
    \E w \in Workers, token \in 1..MaxAuthTokens, fail \in BOOLEAN : Validate(w, token, fail)

RequestReset ==
    \/ \E w \in Workers, email \in Emails, fail \in BOOLEAN : PasswordResetCreate(w, email, fail)
    \/ \E w \in Workers, fail \in BOOLEAN : PasswordResetCreate_Insert(w, fail)
    \/ \E w \in Workers, fail \in BOOLEAN : PasswordResetCreate_Enqueue(w, fail)

ExecuteReset ==
    \/ \E w \in Workers, token \in 1..MaxPasswordResets, newPassword \in PasswordInputs,
          fail \in BOOLEAN : PasswordResetExecute(w, token, newPassword, fail)
    \/ \E w \in Workers, fail \in BOOLEAN : Execute_UpdatePassword(w, fail)
    \/ \E w \in Workers, fail \in BOOLEAN : Execute_MarkUsed(w, fail)
    \/ \E w \in Workers, fail \in BOOLEAN : Execute_InvalidateAllForUser(w, fail)
    \/ \E w \in Workers, fail \in BOOLEAN : Execute_RevokeAllForUser(w, fail)

ScheduleDeletionCall ==
    \/ \E w \in Workers, userID \in UserIDs : ScheduleDeletion(w, userID)
    \/ \E w \in Workers, fail \in BOOLEAN : ScheduleDeletion_GetByID(w, fail)
    \/ \E w \in Workers, fail \in BOOLEAN : ScheduleDeletion_Update(w, fail)
    \/ \E w \in Workers, fail \in BOOLEAN : ScheduleDeletion_RevokeAllForUser(w, fail)
    \/ \E w \in Workers, fail \in BOOLEAN : ScheduleDeletion_Enqueue(w, fail)

RunInTx ==
    \/ \E w \in Workers, fail \in BOOLEAN : RunInTx_Begin(w, fail)
    \/ \E w \in Workers, fail \in BOOLEAN : RunInTx_Rollback(w, fail)
    \/ \E w \in Workers, fail \in BOOLEAN : RunInTx_Commit(w, fail)

Cleanup ==
    \/ \E fail \in BOOLEAN : Cleanup_AuthTokens(fail)
    \/ \E fail \in BOOLEAN : Cleanup_PasswordResets(fail)
    \/ \E fail \in BOOLEAN : Cleanup_EmailVerifications(fail)
    \/ \E fail \in BOOLEAN : Cleanup_Users(fail)

\* the calls of the services, the transactions they run and the cleanup task,
\* interleaved statement by statement
Next ==
    \/ Tick
    \/ Login
    \/ ValidateCall
    \/ RequestReset
    \/ ExecuteReset
    \/ ScheduleDeletionCall
    \/ RunInTx
    \/ Cleanup

Spec == Init /\ [][Next]_vars

SendVerification ==
    \/ \E w \in Workers, userID \in UserIDs, fail \in BOOLEAN : Send(w, userID, fail)
    \/ \E w \in Workers, fail \in BOOLEAN : Send_InvalidateAllForUser(w, fail)
    \/ \E w \in Workers, fail \in BOOLEAN : Send_Create(w, fail)
    \/ \E w \in Workers, fail \in BOOLEAN : Send_Enqueue(w, fail)

VerifyCall ==
    \/ \E w \in Workers, token \in 1..MaxEmailVerifications, fail \in BOOLEAN :
            Verify(w, token, fail)
    \/ \E w \in Workers, fail \in BOOLEAN : Verify_MarkEmailVerified(w, fail)
    \/ \E w \in Workers, fail \in BOOLEAN : Verify_MarkUsed(w, fail)
    \/ \E w \in Workers, fail \in BOOLEAN : Verify_InvalidateAllForUser(w, fail)

ResendCall ==
    \/ \E w \in Workers, email \in Emails, fail \in BOOLEAN : Resend(w, email, fail)
    \/ \E w \in Workers, fail \in BOOLEAN : Resend_Send(w, fail)

\* email verification: sending, verifying, and the cleanup task
NextVerify ==
    \/ Tick
    \/ SendVerification
    \/ VerifyCall
    \/ RunInTx
    \/ Cleanup

SpecVerify == Init /\ [][NextVerify]_vars

\* email verification with the unauthenticated request for a new email
NextResend ==
    \/ Tick
    \/ SendVerification
    \/ ResendCall
    \/ VerifyCall
    \/ RunInTx
    \/ Cleanup

SpecResend == Init /\ [][NextResend]_vars

LogoutCall ==
    \E w \in Workers, token \in 1..MaxAuthTokens, fail \in BOOLEAN : SessionDelete(w, token, fail)

CreateForUserCall ==
    \E w \in Workers, userID \in UserIDs, fail \in BOOLEAN : CreateForUser(w, userID, fail)

\* sessions: login, validation, logout, with account deletion and cleanup
NextSession ==
    \/ Tick
    \/ Login
    \/ CreateForUserCall
    \/ ValidateCall
    \/ LogoutCall
    \/ ScheduleDeletionCall
    \/ RunInTx
    \/ Cleanup

SpecSession == Init /\ [][NextSession]_vars

\* The services were built with auth.auth_token_ttl left at its default, 0;
\* the registered user logged in one tick before the clock of the model
\* starts, and has asked for one password reset.
InitDefaultTTL ==
    /\ config = [AuthTokenTTL |-> 0]
    /\ users = [u \in {1} |-> UserRow(u, BcryptHash(1))]
    /\ auth_tokens = [t \in {1} |-> AuthTokenRow(t, 1, HashToken(t), DefaultAuthTokenTTL - 1)]
    /\ password_resets = [t \in {1} |-> PasswordResetRow(t, 1, HashToken(t), PasswordResetTokenTTL)]
    /\ email_verifications = <<>>
    /\ now = 0
    /\ pc = [w \in Workers |-> "idle"]
    /\ l = [w \in Workers |-> NoCall]
    /\ tx = [w \in Workers |-> NoTx]
    /\ queue = {}
    /\ sentry = {}
    /\ cpc = "idle"
    /\ cerr = Nil
    /\ ops = 0
    /\ cleanups = 0
    /\ minted = [auth |-> 1, reset |-> 1, verification |-> 0, user |-> 1]
    /\ executed = [t \in 1..MaxPasswordResets |-> 0]
    /\ issuedOn = [t \in {1} |-> BcryptHash(1)]
    /\ scheduled = 0

\* sessions under the default configuration
SpecDefaultTTL == InitDefaultTTL /\ [][NextSession]_vars

\* Two registered users: the first has logged in once, and each has asked for
\* one password reset.
InitTwoUsers ==
    /\ config = [AuthTokenTTL |-> AuthTokenTTL]
    /\ users = [u \in {1, 2} |-> UserRow(u, BcryptHash(u))]
    /\ auth_tokens = [t \in {1} |-> AuthTokenRow(t, 1, HashToken(t), AuthTokenTTL)]
    /\ password_resets = [t \in {1, 2} |-> PasswordResetRow(t, t, HashToken(t), PasswordResetTokenTTL)]
    /\ email_verifications = <<>>
    /\ now = 0
    /\ pc = [w \in Workers |-> "idle"]
    /\ l = [w \in Workers |-> NoCall]
    /\ tx = [w \in Workers |-> NoTx]
    /\ queue = {}
    /\ sentry = {}
    /\ cpc = "idle"
    /\ cerr = Nil
    /\ ops = 0
    /\ cleanups = 0
    /\ minted = [auth |-> 1, reset |-> 2, verification |-> 0, user |-> 2]
    /\ executed = [t \in 1..MaxPasswordResets |-> 0]
    /\ issuedOn = [t \in {1} |-> BcryptHash(1)]
    /\ scheduled = 0

\* the calls that change rows, made by and for either user
NextTwoUsers ==
    \/ Login
    \/ LogoutCall
    \/ ExecuteReset
    \/ SendVerification
    \/ VerifyCall
    \/ ScheduleDeletionCall
    \/ RunInTx

SpecTwoUsers == InitTwoUsers /\ [][NextTwoUsers]_vars

Register ==
    \/ \E w \in Workers, email \in Emails, password \in Passwords, fail \in BOOLEAN :
            UserCreate(w, email, password, fail)
    \/ \E w \in Workers, fail \in BOOLEAN : UserCreate_Insert(w, fail)

\* registration, with the session that follows it, account deletion and cleanup
NextRegister ==
    \/ Tick
    \/ Register
    \/ CreateForUserCall
    \/ ScheduleDeletionCall
    \/ RunInTx
    \/ Cleanup

SpecRegister == Init /\ [][NextRegister]_vars

\* the three calls that end by queueing an email
NextEnqueue ==
    \/ Tick
    \/ RequestReset
    \/ SendVerification
    \/ ScheduleDeletionCall
    \/ RunInTx
    \/ Cleanup

SpecEnqueue == Init /\ [][NextEnqueue]_vars

\* the two kinds of single-use token, presented side by side
NextTokenUse ==
    \/ Tick
    \/ SendVerification
    \/ VerifyCall
    \/ ExecuteReset
    \/ RunInTx
    \/ Cleanup

SpecTokenUse == Init /\ [][NextTokenUse]_vars

\* the scheduler starts the cleanup task again, every interval, without end
Cleanup_Rerun(fail) ==
    /\ cpc = "idle"
    /\ cleanups = MaxCleanupRuns
    /\ LET gone == DeleteExpiredOrRevokedAuthTokens(auth_tokens, now) IN
       IF fail THEN
            /\ cpc' = "idle" /\ UNCHANGED auth_tokens
            /\ cerr' = Wrap(Wrap(ErrDriver, "failed to delete expired or revoked auth tokens"),
                            "failed to cleanup auth tokens")
       ELSE /\ gone \cap LockedAny("auth_tokens") = {}
            /\ auth_tokens' = Drop(auth_tokens, gone)
            /\ cpc' = "password_resets"
            /\ cerr' = Nil
    /\ UNCHANGED <<users, password_resets, email_verifications, now, pc, l, tx, queue, sentry,
                   ops, cleanups, minted, executed, issuedOn, scheduled, config>>

\* account deletion with the cleanup task run again and again
NextLive ==
    \/ Tick
    \/ ScheduleDeletionCall
    \/ RunInTx
    \/ Login
    \/ Cleanup
    \/ \E fail \in BOOLEAN : Cleanup_Rerun(fail)

\* the steps that carry on a call that worker w has begun
Continue(w) ==
    \E fail \in BOOLEAN :
        \/ SessionCreate_CancelDeletion(w, fail)
        \/ generateToken(w, fail)
        \/ RunInTx_Begin(w, fail)
        \/ RunInTx_Rollback(w, fail)
        \/ RunInTx_Commit(w, fail)
        \/ ScheduleDeletion_GetByID(w, fail)
        \/ ScheduleDeletion_Update(w, fail)
        \/ ScheduleDeletion_RevokeAllForUser(w, fail)
        \/ ScheduleDeletion_Enqueue(w, fail)

\* The clock advances, a call that has begun carries on, the scheduler keeps
\* starting the cleanup task, and the database does not fail the cleanup
\* task's statements for ever.
Fairness ==
    /\ WF_vars(Tick)
    /\ \A w \in Workers : WF_vars(Continue(w))
    /\ SF_vars(Cleanup_AuthTokens(FALSE) \/ Cleanup_Rerun(FALSE))
    /\ SF_vars(Cleanup_PasswordResets(FALSE))
    /\ SF_vars(Cleanup_EmailVerifications(FALSE))
    /\ SF_vars(Cleanup_Users(FALSE))

SpecLive == Init /\ [][NextLive]_vars /\ Fairness

\* fn panics inside RunInTx: RunInTx has no deferred recover, so the panic
\* unwinds through it to the caller and neither Rollback nor Commit is called
Panic(w) ==
    /\ tx[w].open
    /\ pc[w] \notin {"tx_commit", "tx_rollback"}
    /\ Goto(w, "panicked", [l[w] EXCEPT !.err = <<"panic">>])
    /\ UNCHANGED <<email_verifications, users, auth_tokens, password_resets, now, tx, queue, sentry, cpc, cerr,
                   ops, cleanups, minted, executed, issuedOn, scheduled, config>>

NextPanic == Next \/ \E w \in Workers : Panic(w)

SpecPanic == Init /\ [][NextPanic]_vars

\* ------------------------------------------------------- claims
\* a session that ValidateToken accepts now
Valid(id) ==
    /\ id \in DOMAIN auth_tokens
    /\ auth_tokens[id].revoked_at = Null
    /\ ~(now > auth_tokens[id].expires_at)

\* C1: of the Execute calls that present the same raw reset token, in any
\* interleaving, at most one returns nil (commits a password change).
C1_AtMostOneExecuteSucceeds ==
    \A token \in DOMAIN executed : executed[token] <= 1

\* C2: the steps of Execute's transaction leave the committed tables as they
\* are, except a successful Commit, which at once replaces the user's password
\* hash, marks used the presented token and every other reset token the user
\* had when the call began, and revokes every session the user had then;
\* when a statement, the Commit or the Rollback fails, nothing has changed.
C2_ExecuteIsAtomic ==
    [][\A w \in Workers :
        (l[w].op = "execute" /\ tx[w].open /\ pc'[w] # pc[w]) =>
            IF pc[w] = "tx_commit" /\ l'[w].txEnd = "commit"
            THEN LET u == l[w].reset.user_id IN
                 /\ u \in DOMAIN users' => users'[u].password_hash = l[w].passwordHash
                 /\ l[w].reset.id \in l[w].resetsBefore
                 /\ \A id \in l[w].resetsBefore \cap DOMAIN password_resets' :
                        password_resets'[id].used_at # Null
                 /\ \A id \in l[w].sessionsBefore \cap DOMAIN auth_tokens' :
                        auth_tokens'[id].revoked_at # Null
            ELSE UNCHANGED <<users, auth_tokens, password_resets>>
      ]_vars

\* an Execute has committed for a user who had two reset tokens and a session
C2_Witness ==
    \E w \in Workers :
        /\ pc[w] = "idle" /\ l[w].op = "execute" /\ l[w].txEnd = "commit"
        /\ Cardinality(l[w].resetsBefore) >= 2
        /\ l[w].sessionsBefore # {}
        /\ l[w].resetsBefore \subseteq DOMAIN password_resets
        /\ users[l[w].reset.user_id].password_hash = l[w].passwordHash

\* C3: whenever a session is valid, the password its login was checked
\* against is still the user's password: no valid session outlives a
\* password change.
C3_NoSessionOutlivesPasswordChange ==
    \A id \in DOMAIN auth_tokens :
        (Valid(id) /\ auth_tokens[id].user_id \in DOMAIN users)
            => issuedOn[id] = users[auth_tokens[id].user_id].password_hash

\* C4: of the ScheduleDeletion calls for a user with no login in between, in
\* any interleaving, at most one returns nil.
C4_AtMostOneScheduleSucceeds == scheduled <= 1

TxOps == {"execute", "scheduleDeletion"}

\* C6: RunInTx calls Commit only after fn returned nil and Rollback only after
\* fn returned an error; every call in which fn ran ends in one of the two;
\* after a rollback the caller has fn's error itself, or, when the rollback
\* failed too, an error that wraps it; and when BeginTx fails fn does not run.
C6_RunInTxCommitsOrRollsBack ==
    \A w \in Workers : l[w].op \in TxOps =>
        /\ tx[w].open => (l[w].fnInvoked /\ l[w].txEnd = "none")
        /\ pc[w] = "tx_commit" => (tx[w].open /\ l[w].fnErr = Nil)
        /\ pc[w] = "tx_rollback" => (tx[w].open /\ l[w].fnErr # Nil)
        /\ l[w].txEnd \in {"commit", "commit failed"} => (l[w].fnInvoked /\ l[w].fnErr = Nil)
        /\ l[w].txEnd \in {"rollback", "rollback failed"} =>
                (l[w].fnInvoked /\ l[w].fnErr # Nil /\ Is(l[w].err, l[w].fnErr))
        /\ l[w].txEnd = "rollback" => l[w].err = l[w].fnErr
        /\ l[w].txEnd = "commit" => ~Is(l[w].err, ErrDriver)
        /\ (l[w].fnInvoked /\ ~tx[w].open) => l[w].txEnd # "none"
        /\ Is(l[w].err, Wrap(ErrDriver, "failed to begin transaction")) =>
                (~l[w].fnInvoked /\ l[w].txEnd = "none")
        /\ ~l[w].fnInvoked => (l[w].txEnd = "none" /\ ~tx[w].open)

\* fn returned DELETION_ALREADY_SCHEDULED, the rollback failed as well, and
\* the caller's error still is DELETION_ALREADY_SCHEDULED underneath
C6_Witness ==
    \E w \in Workers :
        /\ pc[w] = "idle" /\ l[w].op = "scheduleDeletion"
        /\ l[w].txEnd = "rollback failed"
        /\ l[w].fnErr = ErrDeletionAlreadyScheduled
        /\ l[w].err # ErrDeletionAlreadyScheduled
        /\ Is(l[w].err, ErrDeletionAlreadyScheduled)

\* C7: after fn has panicked inside RunInTx and the panic has reached the
\* caller, the transaction is not open.
C7_NoTransactionOpenAfterPanic ==
    \A w \in Workers : pc[w] = "panicked" => ~tx[w].open

\* the auth token rows with the hash of a raw token
RowsOf(token) ==
    {id \in DOMAIN auth_tokens : auth_tokens[id].token_hash = HashToken(token)}

ExpiredUnrevoked(t) ==
    /\ auth_tokens[t].revoked_at = Null
    /\ now > auth_tokens[t].expires_at
    /\ ~(t \in DOMAIN auth_tokens' /\ auth_tokens'[t].revoked_at # Null)

\* C9 as stated: an expired, never revoked session token fails ValidateToken
\* with TOKEN_EXPIRED after every step, cleanup runs included.
C9_ExpiredTokenAlwaysTokenExpired ==
    [][\A t \in DOMAIN auth_tokens :
        ExpiredUnrevoked(t) => ValidateToken(t, FALSE)'.err = ErrTokenExpired
      ]_vars

\* C9, amended: an expired, never revoked session token fails ValidateToken
\* with TOKEN_EXPIRED as long as its row exists; only a step of the cleanup
\* task removes the row, and from then on ValidateToken fails with
\* INVALID_TOKEN. It is never accepted.
C9_ExpiredTokenExpiredUntilPurged ==
    [][\A t \in DOMAIN auth_tokens :
        ExpiredUnrevoked(t) =>
            IF t \in DOMAIN auth_tokens'
            THEN ValidateToken(t, FALSE)'.err = ErrTokenExpired
            ELSE /\ ValidateToken(t, FALSE)'.err = ErrInvalidToken
                 /\ cpc' # cpc
      ]_vars

\* with no call made at all, the session token of the initial login has
\* expired and the cleanup task has deleted it: ValidateToken now fails with
\* INVALID_TOKEN
C9_Witness ==
    /\ ops = 0
    /\ now > AuthTokenTTL
    /\ 1 \in DOMAIN users
    /\ 1 \notin DOMAIN auth_tokens
    /\ ValidateToken(1, FALSE).err = ErrInvalidToken

\* C10 as stated: an Execute that starts after an Execute with the same raw
\* token has returned nil fails with TOKEN_ALREADY_USED (unless the driver
\* fails).
C10_LaterExecuteFailsTokenAlreadyUsed ==
    \A w \in Workers :
        (l[w].op = "execute" /\ l[w].usedBefore /\ pc[w] = "idle"
         /\ ~Is(l[w].err, ErrDriver))
            => l[w].err = ErrTokenAlreadyUsed

\* C10, amended: an Execute that starts after an Execute with the same raw
\* token has returned nil ends at its checks, before any transaction: with
\* TOKEN_ALREADY_USED, or, once the cleanup task has run, with
\* INVALID_RESET_TOKEN (or with the driver's error).
C10_LaterExecuteFailsAndChangesNothing ==
    \A w \in Workers :
        (l[w].op = "execute" /\ l[w].usedBefore) =>
            /\ pc[w] = "idle"
            /\ ~l[w].fnInvoked /\ l[w].txEnd = "none" /\ ~tx[w].open
            /\ \/ l[w].err = ErrTokenAlreadyUsed
               \/ l[w].err = ErrInvalidResetToken /\ cleanups > 0
               \/ Is(l[w].err, ErrDriver)

\* an Execute with an already executed token has returned TOKEN_ALREADY_USED
C10_Witness ==
    \E w \in Workers :
        /\ pc[w] = "idle" /\ l[w].op = "execute" /\ l[w].usedBefore
        /\ l[w].err = ErrTokenAlreadyUsed
        /\ executed[l[w].token] = 1

\* C11: when an Execute commits for user U, every session token of U that
\* was issued before the commit and still has its row fails ValidateToken
\* with TOKEN_REVOKED.
C11_PreResetSessionsRevoked ==
    [][\A w \in Workers :
        (l[w].op = "execute" /\ pc[w] = "tx_commit" /\ l'[w].txEnd = "commit") =>
            \A id \in DOMAIN auth_tokens \cap DOMAIN auth_tokens' :
                auth_tokens[id].user_id = l[w].reset.user_id
                    => ValidateToken(id, FALSE)'.err = ErrTokenRevoked
      ]_vars

\* the step in which worker w takes a new call of operation op
Starts(w, op) ==
    /\ pc[w] = "idle"
    /\ \A v \in Workers : v < w => pc[v] # "idle"
    /\ ops' = ops + 1
    /\ l'[w].op = op

\* what a single-use token call must answer for the rows with the token's
\* hash, given the error of a miss; a driver error is the only alternative
Classified(w, rows, table, missing) ==
    /\ rows = {} => (l'[w].err = missing \/ Is(l'[w].err, ErrDriver))
    /\ \A id \in rows :
        /\ table[id].used_at # Null
                => (l'[w].err = ErrTokenAlreadyUsed \/ Is(l'[w].err, ErrDriver))
        /\ (table[id].used_at = Null /\ now > table[id].expires_at)
                => (l'[w].err = ErrTokenExpired \/ Is(l'[w].err, ErrDriver))
        /\ (table[id].used_at = Null /\ now <= table[id].expires_at)
                => l'[w].err \notin {missing, ErrTokenAlreadyUsed, ErrTokenExpired}
    /\ l'[w].err \in {missing, ErrTokenAlreadyUsed, ErrTokenExpired} =>
        /\ pc'[w] = "idle" /\ ~l'[w].fnInvoked /\ ~tx'[w].open
        /\ UNCHANGED <<users, auth_tokens, password_resets, email_verifications>>

\* C12: Execute and Verify answer INVALID_RESET_TOKEN / INVALID_VERIFICATION_TOKEN
\* when no row has the token's hash, else TOKEN_ALREADY_USED when used_at is
\* set (expired or not), else TOKEN_EXPIRED when now is after expires_at; a
\* call that answers one of these has ended without opening a transaction
\* and without changing any table.
C12_TokenChecksInOrder ==
    [][\A w \in Workers :
        /\ Starts(w, "execute") =>
                Classified(w, {id \in DOMAIN password_resets :
                                password_resets[id].token_hash = HashToken(l'[w].token)},
                           password_resets, ErrInvalidResetToken)
        /\ Starts(w, "verify") =>
                Classified(w, {id \in DOMAIN email_verifications :
                                email_verifications[id].token_hash = HashToken(l'[w].token)},
                           email_verifications, ErrInvalidVerificationToken)
      ]_vars

\* a Verify has answered TOKEN_ALREADY_USED for a token that is used and
\* past its expiry
C12_Witness ==
    \E w \in Workers :
        /\ pc[w] = "idle" /\ l[w].op = "verify" /\ l[w].err = ErrTokenAlreadyUsed
        /\ l[w].verification.used_at # Null
        /\ now > l[w].verification.expires_at
        /\ ~l[w].fnInvoked

\* C13 as stated, its last part: a verification token is used only if its
\* owner is verified.
C13_UsedTokenImpliesVerifiedOwner ==
    \A id \in DOMAIN email_verifications :
        (email_verifications[id].used_at # Null
         /\ email_verifications[id].user_id \in DOMAIN users)
            => users[email_verifications[id].user_id].email_verified_at # Null

\* C13, amended: the steps of Verify's transaction leave the committed tables
\* as they are, except a successful Commit, which at once marks the user's
\* email verified and marks used the presented token and every other token
\* of the user that was un-used when the call began; when a statement, the
\* Commit or the Rollback fails, nothing has changed. (A token can be used
\* while its owner is unverified: Send marks the earlier tokens used.)
C13_VerifyIsAtomic ==
    [][\A w \in Workers :
        (l[w].op = "verify" /\ tx[w].open /\ pc'[w] # pc[w]) =>
            IF pc[w] = "tx_commit" /\ l'[w].txEnd = "commit"
            THEN LET u == l[w].verification.user_id IN
                 /\ u \in DOMAIN users' => users'[u].email_verified_at # Null
                 /\ l[w].verification.id \in l[w].verificationsBefore
                 /\ \A id \in l[w].verificationsBefore \cap DOMAIN email_verifications' :
                        email_verifications'[id].used_at # Null
                 /\ UNCHANGED <<auth_tokens, password_resets>>
            ELSE UNCHANGED <<users, auth_tokens, password_resets, email_verifications>>
      ]_vars

\* a Verify has committed for a user who had two un-used verification
\* tokens: the user is verified and both tokens are used
C13_Witness ==
    \E w \in Workers :
        /\ pc[w] = "idle" /\ l[w].op = "verify" /\ l[w].txEnd = "commit"
        /\ Cardinality(l[w].verificationsBefore) >= 2
        /\ l[w].verificationsBefore \subseteq DOMAIN email_verifications
        /\ \A id \in l[w].verificationsBefore : email_verifications[id].used_at # Null
        /\ users[l[w].verification.user_id].email_verified_at # Null

\* C14: the statements of ScheduleDeletion's transaction become visible only
\* at its Commit, after which the user's deletion_scheduled_at is the call
\* time plus AccountDeletionDelay; and from the Commit on, every session the
\* user had when the call began fails ValidateToken.
C14_ScheduleSetsDeadlineAndRevokesSessions ==
    [][\A w \in Workers :
        /\ (l[w].op = "scheduleDeletion" /\ tx[w].open /\ pc'[w] # pc[w]) =>
                IF pc[w] = "tx_commit" /\ l'[w].txEnd = "commit"
                THEN /\ l[w].userID \in DOMAIN users'
                     /\ users'[l[w].userID].deletion_scheduled_at = l[w].scheduledAt
                     /\ \A id \in l[w].sessionsBefore \cap DOMAIN auth_tokens' :
                            auth_tokens'[id].revoked_at # Null
                ELSE UNCHANGED <<users, auth_tokens, password_resets, email_verifications>>
        /\ (l'[w].op = "scheduleDeletion" /\ l'[w].txEnd = "commit") =>
                \A id \in l'[w].sessionsBefore : ValidateToken(id, FALSE)'.err # Nil
      ]_vars

\* the two refusals of ScheduleDeletion
ScheduleRefusals == {ErrUserNotFound, ErrDeletionAlreadyScheduled}

\* C15: when ScheduleDeletion's read inside the transaction finds no user, fn
\* returns USER_NOT_FOUND, and when it finds deletion_scheduled_at set, fn
\* returns DELETION_ALREADY_SCHEDULED (a driver error aside); after either,
\* the transaction has written nothing, the only step left is the Rollback,
\* which changes no table and enqueues no email, and the caller gets that
\* error.
C15_ScheduleRefusalsChangeNothing ==
    [][\A w \in Workers :
        /\ (pc[w] = "schedule_get" /\ pc'[w] # pc[w]) =>
            LET u == l[w].userID IN
            /\ u \notin DOMAIN users =>
                    (l'[w].fnErr = ErrUserNotFound \/ Is(l'[w].fnErr, ErrDriver))
            /\ (u \in DOMAIN users /\ users[u].deletion_scheduled_at # Null) =>
                    (l'[w].fnErr = ErrDeletionAlreadyScheduled \/ Is(l'[w].fnErr, ErrDriver))
            /\ l'[w].fnErr \in ScheduleRefusals =>
                    (pc'[w] = "tx_rollback" /\ tx'[w] = EmptyTx)
        /\ (l[w].op = "scheduleDeletion" /\ l[w].fnErr \in ScheduleRefusals
            /\ pc[w] # "idle" /\ pc'[w] # pc[w]) =>
            /\ pc[w] = "tx_rollback" /\ pc'[w] = "idle"
            /\ l'[w].txEnd \in {"rollback", "rollback failed"}
            /\ Is(l'[w].err, l[w].fnErr)
            /\ ~tx'[w].open
            /\ UNCHANGED <<users, auth_tokens, password_resets, email_verifications, queue>>
      ]_vars

\* a ScheduleDeletion for a user whose deletion was already scheduled has
\* returned DELETION_ALREADY_SCHEDULED, and the earlier schedule stands
C15_Witness ==
    \E w \in Workers :
        /\ pc[w] = "idle" /\ l[w].op = "scheduleDeletion"
        /\ l[w].err = ErrDeletionAlreadyScheduled
        /\ l[w].txEnd = "rollback"
        /\ l[w].userID \in DOMAIN users
        /\ users[l[w].userID].deletion_scheduled_at # Null
        /\ users[l[w].userID].deletion_scheduled_at # l[w].scheduledAt

\* C16: a login that reads a user with a scheduled deletion, once its
\* password check has passed, goes on to CancelDeletion and never straight
\* to the token; CancelDeletion either fails the login or leaves the user
\* with no scheduled deletion; and no step removes a user that has no
\* scheduled deletion. So a login that finds the schedule and returns nil
\* has cleared it.
C16_SuccessfulLoginClearsSchedule ==
    [][\A w \in Workers :
        /\ Starts(w, "login") =>
            \A u \in DOMAIN users :
                (/\ users[u].email = l'[w].email
                 /\ users[u].password_hash = BcryptHash(l'[w].password)
                 /\ users[u].deletion_scheduled_at # Null)
                    => (pc'[w] = "login_cancel" \/ Is(l'[w].err, ErrDriver))
        /\ (pc[w] = "login_cancel" /\ pc'[w] # pc[w]) =>
            \/ pc'[w] = "idle" /\ l'[w].err # Nil /\ l'[w].user = NoRow
            \/ /\ pc'[w] = "login_token"
               /\ l[w].user.id \in DOMAIN users' =>
                    users'[l[w].user.id].deletion_scheduled_at = Null
        /\ (l'[w].op = "login" /\ l'[w].err = Nil /\ pc'[w] = "idle" /\ pc[w] # "idle") =>
            /\ l'[w].user.deletion_scheduled_at = Null
            /\ l'[w].token \in DOMAIN auth_tokens'
        /\ \A u \in DOMAIN users :
            users[u].deletion_scheduled_at = Null => u \in DOMAIN users'
      ]_vars

\* a login for a user with a scheduled deletion has returned nil with a
\* session token: the schedule is cleared and the session is accepted
C16_Witness ==
    \E w \in Workers :
        /\ pc[w] = "idle" /\ l[w].op = "login" /\ l[w].err = Nil /\ l[w].cleared
        /\ l[w].user.id \in DOMAIN users
        /\ users[l[w].user.id].deletion_scheduled_at = Null
        /\ ValidateToken(l[w].token, FALSE).err = Nil

\* C17: a user row leaves the users table only in the DeleteScheduledUsers
\* step of the cleanup task, and only when its deletion_scheduled_at is set
\* and not after now.
C17_OnlyCleanupDeletesOverdueUsers ==
    [][\A u \in DOMAIN users :
        u \notin DOMAIN users' =>
            /\ cpc = "users" /\ cpc' = "idle"
            /\ UNCHANGED <<pc, l, tx>>
            /\ users[u].deletion_scheduled_at # Null
            /\ users[u].deletion_scheduled_at <= now
      ]_vars

\* the cleanup task has deleted the user, whose deletion had been scheduled
\* by a ScheduleDeletion call and had come due
C17_Witness ==
    /\ 1 \notin DOMAIN users
    /\ cleanups > 0
    /\ now >= AccountDeletionDelay
    /\ \E w \in Workers :
        l[w].op = "scheduleDeletion" /\ l[w].txEnd = "commit" /\ l[w].scheduledAt <= now

\* the deadline of user u's scheduled deletion has come and the schedule
\* still stands
Overdue(u) ==
    /\ u \in DOMAIN users
    /\ users[u].deletion_scheduled_at # Null
    /\ users[u].deletion_scheduled_at <= now

\* an overlapping call to schedule the deletion has moved user u's deadline
\* further than the clock of the model runs
Postponed(u) ==
    /\ u \in DOMAIN users
    /\ users[u].deletion_scheduled_at > MaxTime

UnknownEmail(email) == \A id \in DOMAIN users : users[id].email # email

\* a user has the email and the password is not the one hashed in the row
WrongPassword(email, password) ==
    \E id \in DOMAIN users :
        /\ users[id].email = email
        /\ users[id].password_hash # BcryptHash(password)

\* C19: a login with an email of no user and a login with a wrong password
\* return at once with no user and no token, change no table, queue no task,
\* and, when the lookup itself did not fail, both return ErrInvalidCredentials.
C19_FailedLoginsAreAlike ==
    [][\A w \in Workers :
        (/\ Starts(w, "login")
         /\ \/ UnknownEmail(l'[w].email)
            \/ WrongPassword(l'[w].email, l'[w].password))
        => /\ pc'[w] = "idle"
           /\ l'[w].user = NoRow
           /\ l'[w].token = 0
           /\ UNCHANGED <<users, auth_tokens, password_resets, email_verifications,
                          queue, minted, tx>>
           /\ \/ l'[w].err = ErrInvalidCredentials
              \/ Is(l'[w].err, ErrDriver)
      ]_vars

\* a login with the email of a user and a wrong password has returned
\* ErrInvalidCredentials, as a login with an unknown email does
C19_Witness ==
    \E w \in Workers :
        /\ l[w].op = "login" /\ pc[w] = "idle"
        /\ WrongPassword(l[w].email, l[w].password)
        /\ l[w].err = ErrInvalidCredentials
        /\ l[w].user = NoRow /\ l[w].token = 0
        /\ minted.auth = 1 /\ DOMAIN auth_tokens = {1}

\* worker w returns from the call op in this step
Returns(w, op) ==
    /\ l'[w].op = op
    /\ pc'[w] = "idle"
    /\ pc[w] # "idle" \/ Starts(w, op)

\* C20: a request for a password reset with an email of no user returns at
\* once, creates no password reset and queues no email; and whether or not
\* the email is a user's, the service returns nil unless a statement failed,
\* and the handler answers 202 whatever the service returned.
C20_UnknownEmailLooksLikeKnownEmail ==
    [][\A w \in Workers :
        /\ (Starts(w, "requestReset") /\ UnknownEmail(l'[w].email))
           => /\ pc'[w] = "idle"
              /\ l'[w].token = 0
              /\ UNCHANGED <<users, auth_tokens, password_resets, email_verifications,
                             queue, minted, tx>>
        /\ Returns(w, "requestReset")
           => /\ l'[w].err = Nil \/ Is(l'[w].err, ErrDriver)
              /\ PasswordResetHandler_Create(l'[w].err) = StatusAccepted
      ]_vars

\* a request with an unknown email has returned nil, as a request with the
\* email of a user does, with no password reset created and no email queued
C20_Witness ==
    \E w \in Workers :
        /\ l[w].op = "requestReset" /\ pc[w] = "idle"
        /\ UnknownEmail(l[w].email)
        /\ l[w].err = Nil /\ l[w].token = 0
        /\ queue = {}
        /\ minted.reset = 1 /\ DOMAIN password_resets \subseteq {1}
        /\ PasswordResetHandler_Create(l[w].err) = StatusAccepted

\* the email is that of a user whose email is verified
VerifiedEmail(email) ==
    \E id \in DOMAIN users :
        users[id].email = email /\ users[id].email_verified_at # Null

\* C21: a request for a new verification email with an email of no user or
\* of a verified user returns at once, creates no email verification and
\* queues no email; and no such request ever returns ErrEmailAlreadyVerified
\* or a not-found error.
C21_ResendIsSilent ==
    [][\A w \in Workers :
        /\ (Starts(w, "resend")
            /\ (UnknownEmail(l'[w].email) \/ VerifiedEmail(l'[w].email)))
           => /\ pc'[w] = "idle"
              /\ l'[w].err = Nil \/ Is(l'[w].err, ErrDriver)
              /\ UNCHANGED <<users, auth_tokens, password_resets, email_verifications,
                             queue, minted, tx>>
        /\ Returns(w, "resend")
           => /\ l'[w].err # ErrEmailAlreadyVerified
              /\ ~Is(l'[w].err, ErrNoRows)
      ]_vars

\* the user's tokens that are not used, in a table of tokens
Unused(table, userID) ==
    {id \in DOMAIN table : table[id].user_id = userID /\ table[id].used_at = Null}

\* C22: Send for a verified user returns ErrEmailAlreadyVerified and changes
\* nothing; otherwise its invalidation leaves the user no un-used email
\* verification, and when no other call has created one since, its insert
\* leaves the user exactly one un-used email verification, the newest.
C22_SendLeavesOneUnusedToken ==
    [][\A w \in Workers :
        /\ (Starts(w, "send")
            /\ l'[w].userID \in DOMAIN users
            /\ users[l'[w].userID].email_verified_at # Null)
           => /\ pc'[w] = "idle"
              /\ l'[w].err = ErrEmailAlreadyVerified \/ Is(l'[w].err, ErrDriver)
              /\ UNCHANGED <<users, auth_tokens, password_resets, email_verifications,
                             queue, minted, tx>>
        /\ (pc[w] = "send_invalidate" /\ pc'[w] = "send_create")
           => Unused(email_verifications', l[w].userID) = {}
        /\ (pc[w] = "send_create" /\ pc'[w] = "send_enqueue"
            /\ l[w].mintedBefore = minted.verification)
           => /\ Unused(email_verifications', l[w].userID) = {l'[w].token}
              /\ l'[w].token = minted'.verification
              /\ \A id \in DOMAIN email_verifications' : id <= l'[w].token
      ]_vars

\* a second Send for the same unverified user has completed after the first:
\* the first token is used, the second is the one un-used token
C22_Witness ==
    \E w \in Workers :
        /\ l[w].op = "send" /\ pc[w] = "idle" /\ l[w].err = Nil
        /\ l[w].token = 2 /\ l[w].mintedBefore = 1
        /\ 1 \in DOMAIN email_verifications
        /\ email_verifications[1].user_id = l[w].userID
        /\ email_verifications[1].used_at # Null
        /\ Unused(email_verifications, l[w].userID) = {2}

\* the email task that worker w, about to queue an email, hands to EnqueueCtx
EmailTask(w) ==
    IF pc[w] = "reset_enqueue"
    THEN [template |-> "password-reset", to |-> l[w].user.email, token |-> l[w].token]
    ELSE IF pc[w] = "send_enqueue"
    THEN [template |-> "email-verification", to |-> l[w].user.email, token |-> l[w].token]
    ELSE [template |-> "account-deletion-scheduled", to |-> l[w].userEmail, token |-> 0]

\* C23: the step that queues the email of a password reset request, of Send
\* and of ScheduleDeletion returns nil and changes no table, whether or not
\* the enqueue fails; a failed enqueue leaves the queue as it was and is
\* captured by the error sink, a successful one is not.
C23_EnqueueFailureIsSwallowed ==
    [][\A w \in Workers :
        (pc[w] \in {"reset_enqueue", "send_enqueue", "schedule_enqueue"} /\ pc'[w] # pc[w])
        => /\ pc'[w] = "idle"
           /\ l[w].err = Nil /\ l'[w].err = Nil
           /\ UNCHANGED <<users, auth_tokens, password_resets, email_verifications, tx>>
           /\ \/ queue' = queue \cup {EmailTask(w)} /\ sentry' = sentry
              \/ queue' = queue /\ sentry' = sentry \cup {EmailTask(w)}
           /\ EmailTask(w) \in queue' \/ EmailTask(w) \in sentry'
      ]_vars

\* a password reset request has returned nil with its password reset stored,
\* although the enqueue of its email failed: the task is in the error sink
\* and not in the queue
C23_Witness ==
    \E w \in Workers :
        /\ l[w].op = "requestReset" /\ pc[w] = "idle" /\ l[w].err = Nil
        /\ l[w].token \in DOMAIN password_resets
        /\ \E task \in sentry : task.template = "password-reset" /\ task.token = l[w].token
        /\ \A task \in queue : task.token # l[w].token

\* the session rows that hold the hash of a raw token
RowsWithHash(token) ==
    {id \in DOMAIN auth_tokens : auth_tokens[id].token_hash = HashToken(token)}

\* C24: a logout returns nil unless its statement fails, also when the
\* session was revoked before; after it the session with the token's hash is
\* revoked, a session revoked before stays revoked, every other session row
\* is as it was, and no row is added or removed.
C24_LogoutIsIdempotentAndLocal ==
    [][\A w \in Workers :
        Starts(w, "logout")
        => /\ pc'[w] = "idle"
           /\ l'[w].err = Nil \/ Is(l'[w].err, ErrDriver)
           /\ DOMAIN auth_tokens' = DOMAIN auth_tokens
           /\ \A id \in DOMAIN auth_tokens :
                /\ id \notin RowsWithHash(l'[w].token) => auth_tokens'[id] = auth_tokens[id]
                /\ auth_tokens[id].revoked_at # Null => auth_tokens'[id].revoked_at # Null
                /\ (id \in RowsWithHash(l'[w].token) /\ l'[w].err = Nil)
                   => /\ auth_tokens'[id].revoked_at # Null
                      /\ [auth_tokens'[id] EXCEPT !.revoked_at = Null]
                            = [auth_tokens[id] EXCEPT !.revoked_at = Null]
                /\ l'[w].err # Nil => auth_tokens'[id] = auth_tokens[id]
           /\ UNCHANGED <<users, password_resets, email_verifications, queue, minted, tx>>
      ]_vars

\* the second of two logouts with the same token has returned nil and the
\* session is still revoked
C24_Witness ==
    \E w \in Workers :
        /\ l[w].op = "logout" /\ pc[w] = "idle" /\ l[w].err = Nil
        /\ l[w].wasRevoked
        /\ ops = 2
        /\ users[1].deletion_scheduled_at = Null
        /\ \A id \in RowsWithHash(l[w].token) : auth_tokens[id].revoked_at # Null
        /\ RowsWithHash(l[w].token) # {}

\* worker w returns from a login or from CreateForUser with a new session
Issues(w) ==
    \/ /\ l[w].op = "login" /\ pc[w] = "login_token"
       /\ pc'[w] = "idle" /\ l'[w].err = Nil
    \/ Starts(w, "createForUser") /\ l'[w].err = Nil

\* the user of the call of worker w
SessionUser(w) == IF l[w].op = "login" THEN l[w].user.id ELSE l[w].userID

\* C25: a login or CreateForUser that returns nil adds exactly one session
\* row, for its user, under the hash of the raw token it returns; the token
\* validates at once and yields the user's id; every other session row is as
\* it was. No other step of a login adds or changes a session row.
C25_LoginAddsOneSession ==
    [][\A w \in Workers :
        /\ Issues(w)
           => /\ l'[w].token \notin DOMAIN auth_tokens
              /\ DOMAIN auth_tokens' = DOMAIN auth_tokens \cup {l'[w].token}
              /\ \A id \in DOMAIN auth_tokens : auth_tokens'[id] = auth_tokens[id]
              /\ auth_tokens'[l'[w].token].user_id = SessionUser(w)'
              /\ auth_tokens'[l'[w].token].token_hash = HashToken(l'[w].token)
              /\ \E token \in 1..MaxAuthTokens :
                    /\ token = l'[w].token
                    /\ ValidateToken(token, FALSE)'.err = Nil
                    /\ ValidateToken(token, FALSE)'.authToken.user_id = SessionUser(w)'
        /\ (~Issues(w) /\ l'[w].op \in {"login", "createForUser"} /\ pc'[w] # pc[w]
            /\ \A v \in Workers \ {w} : pc'[v] = pc[v] /\ l'[v] = l[v])
           => UNCHANGED auth_tokens
      ]_vars

\* after a login the user has two sessions and both validate
C25_Witness ==
    \E w \in Workers :
        /\ l[w].op = "login" /\ pc[w] = "idle" /\ l[w].err = Nil
        /\ l[w].token = 2
        /\ Valid(1) /\ Valid(2)
        /\ auth_tokens[1].user_id = l[w].user.id
        /\ auth_tokens[2].user_id = l[w].user.id
        /\ ValidateToken(1, FALSE).err = Nil
        /\ ValidateToken(2, FALSE).err = Nil

\* C26: every session, password reset and email verification row holds the
\* hash of its raw token and not the raw token, and no log line holds the raw
\* token of a stored password reset or email verification.
C26_RawTokenNeverStoredOrLogged ==
    /\ \A id \in DOMAIN auth_tokens : auth_tokens[id].token_hash = HashToken(id)
    /\ \A id \in DOMAIN password_resets : password_resets[id].token_hash = HashToken(id)
    /\ \A id \in DOMAIN email_verifications :
            email_verifications[id].token_hash = HashToken(id)
    /\ \A line \in LoggerMiddleware :
        /\ line.path = "/password-resets/"
           => \A id \in DOMAIN password_resets :
                password_resets[id].token_hash # HashToken(line.token)
        /\ line.path = "/email-verifications/"
           => \A id \in DOMAIN email_verifications :
                email_verifications[id].token_hash # HashToken(line.token)

\* the position the cleanup task is in after the purge at position p
NextPurge(p) ==
    CASE p = "idle" -> "password_resets"
      [] p = "password_resets" -> "email_verifications"
      [] p = "email_verifications" -> "users"
      [] p = "users" -> "idle"

\* C27: a run of the cleanup task purges session tokens, password resets,
\* email verifications and overdue users in that order, one table per purge;
\* a purge that fails deletes nothing, ends the run with an error and leaves
\* the later purges of the run undone; a run ends early only in that way.
C27_PurgesInOrderAndStopAtFailure ==
    [][(cpc' # cpc \/ cleanups' # cleanups)
        => /\ UNCHANGED <<pc, l, tx, now>>
           /\ cpc' # "idle" => cerr' = Nil
           /\ cerr' # Nil
              => /\ cpc' = "idle"
                 /\ UNCHANGED <<users, auth_tokens, password_resets, email_verifications>>
           /\ cerr' = Nil
              => /\ cpc' = NextPurge(cpc)
                 /\ cpc = "idle"
                    => /\ auth_tokens' = Drop(auth_tokens,
                                              DeleteExpiredOrRevokedAuthTokens(auth_tokens, now))
                       /\ UNCHANGED <<users, password_resets, email_verifications>>
                 /\ cpc = "password_resets"
                    => /\ password_resets' = Drop(password_resets,
                                DeleteExpiredOrUsedPasswordResets(password_resets, now))
                       /\ UNCHANGED <<users, auth_tokens, email_verifications>>
                 /\ cpc = "email_verifications"
                    => /\ email_verifications' = Drop(email_verifications,
                                DeleteExpiredOrUsedEmailVerifications(email_verifications, now))
                       /\ UNCHANGED <<users, auth_tokens, password_resets>>
                 /\ cpc = "users"
                    => users' = Drop(users, DeleteScheduledUsers(users, now))
      ]_vars

\* a run has ended with the error of the password reset purge, after the
\* session tokens were purged, and an overdue user is still there
C27_Witness ==
    /\ cpc = "idle" /\ cleanups = 1
    /\ cerr = Wrap(Wrap(ErrDriver, "failed to delete expired or used password resets"),
                   "failed to cleanup password reset tokens")
    /\ \A id \in DOMAIN auth_tokens : Valid(id)
    /\ DeleteExpiredOrUsedPasswordResets(password_resets, now) # {}
    /\ Overdue(1)

\* no two user rows share an email
UniqueEmails ==
    \A a, b \in DOMAIN users : users[a].email = users[b].email => a = b

\* C28: no two user rows ever share an email, and a registration returns the
\* new user, or ErrEmailAlreadyExists, or the error of a failed statement.
C28_OneRegistrationPerEmail ==
    [][/\ UniqueEmails'
       /\ \A w \in Workers :
            Returns(w, "register")
            => \/ l'[w].err = Nil /\ l'[w].user.found
               \/ l'[w].err = ErrEmailAlreadyExists
               \/ Is(l'[w].err, ErrDriver)
      ]_vars

\* the calls that reach a service through a handler that returns its error
ThroughHandler ==
    {"login", "createForUser", "logout", "register", "execute", "scheduleDeletion",
     "send", "verify"}

\* C29: when a call through a handler has returned an error, the response
\* carries the code and status of that error if it is one of the sentinel
\* errors, and 500 INTERNAL_ERROR otherwise.
C29_DomainErrorsKeepTheirCode ==
    \A w \in Workers :
        (pc[w] = "idle" /\ l[w].op \in ThroughHandler /\ l[w].err # Nil)
        => ErrorHandler(HandlerError(l[w].op, l[w].err))
            = IF l[w].err \in AppErrors
              THEN [status |-> StatusCode(l[w].err), code |-> l[w].err[1]]
              ELSE [status |-> 500, code |-> "INTERNAL_ERROR"]

\* C30: when a password reset request has stored its new token, every other
\* reset token of that user is marked used, so the new token is the only
\* un-used one the user holds.
C30_NewResetInvalidatesPending ==
    [][\A w \in Workers :
           (pc[w] = "reset_create" /\ pc'[w] = "reset_enqueue")
           => Unused(password_resets', l'[w].user.id) = {l'[w].token}
      ]_vars

\* the user's tokens in a table that are not used and not expired
Usable(table, userID) ==
    {id \in Unused(table, userID) : ~After(now, table[id].expires_at)}

\* a reset request or a Send for the user has not returned yet
Pending(userID) ==
    \E w \in Workers :
        /\ pc[w] # "idle"
        /\ \/ l[w].op = "requestReset" /\ l[w].user.id = userID
           \/ l[w].op \in {"send", "resend"} /\ l[w].userID = userID

\* C31: when no reset request and no Send for a user is in flight, the user
\* holds at most one usable password reset and at most one usable email
\* verification.
C31_AtMostOneUsableTokenPerKind ==
    \A u \in UserIDs :
        ~Pending(u)
        => /\ Cardinality(Usable(password_resets, u)) <= 1
           /\ Cardinality(Usable(email_verifications, u)) <= 1

\* the steps from which an email task is handed to the broker
EnqueueSteps == {"reset_enqueue", "send_enqueue", "schedule_enqueue"}

\* C32: a call comes to the step that queues its email only by the step that
\* made its write durable (the insert of the token for a reset request and
\* for Send, the commit of the transaction for ScheduleDeletion, after which
\* the rows the transaction wrote are in the tables), and the queue grows
\* only by such a call, which then has no transaction open.
C32_DispatchOnlyAfterDurableWrite ==
    [][/\ \A w \in Workers :
            (pc'[w] \in EnqueueSteps /\ pc[w] # pc'[w])
            => /\ tx'[w] = NoTx
               /\ l'[w].err = Nil
               /\ pc'[w] = "reset_enqueue"
                    => /\ pc[w] = "reset_create"
                       /\ l'[w].token \in DOMAIN password_resets'
                       /\ password_resets'[l'[w].token].token_hash = HashToken(l'[w].token)
                       /\ password_resets'[l'[w].token].user_id = l'[w].user.id
               /\ pc'[w] = "send_enqueue"
                    => /\ pc[w] = "send_create"
                       /\ l'[w].token \in DOMAIN email_verifications'
                       /\ email_verifications'[l'[w].token].token_hash = HashToken(l'[w].token)
                       /\ email_verifications'[l'[w].token].user_id = l'[w].userID
               /\ pc'[w] = "schedule_enqueue"
                    => /\ pc[w] = "tx_commit"
                       /\ l'[w].txEnd = "commit"
                       /\ \A id \in DOMAIN tx[w].users : users'[id] = tx[w].users[id]
                       /\ \A id \in DOMAIN tx[w].auth_tokens :
                              auth_tokens'[id] = tx[w].auth_tokens[id]
       /\ queue' # queue
            => \E w \in Workers :
                   /\ pc[w] \in EnqueueSteps /\ pc'[w] = "idle"
                   /\ tx[w] = NoTx
                   /\ queue' = queue \cup {EmailTask(w)}
      ]_vars

\* a ScheduleDeletion has returned after its transaction committed, its
\* email is in the queue and the user's row carries the schedule
C32_Witness ==
    \E w \in Workers :
        /\ pc[w] = "idle" /\ l[w].op = "scheduleDeletion" /\ l[w].err = Nil
        /\ l[w].txEnd = "commit"
        /\ tx[w] = NoTx
        /\ users[l[w].userID].deletion_scheduled_at = l[w].scheduledAt
        /\ \E task \in queue :
               task.template = "account-deletion-scheduled" /\ task.to = l[w].userEmail

\* the token rows that are still good: the sessions validate accepts and the
\* un-used, un-expired password resets and email verifications
Live(table, flag) ==
    {id \in DOMAIN table : table[id][flag] = Null /\ ~After(now, table[id].expires_at)}

\* a step of the cleanup task
CleanupStep == cpc' # cpc \/ cleanups' # cleanups

\* the rows of a table that a step leaves in place and unchanged
Kept(before, after) == {id \in DOMAIN before : id \in DOMAIN after /\ after[id] = before[id]}

\* C33 as stated: no step of a cleanup run deletes or changes a session that
\* validate accepts or an un-used, un-expired password reset or email
\* verification.
C33_CleanupKeepsLiveTokens ==
    [][CleanupStep
       => /\ Live(auth_tokens, "revoked_at") \subseteq Kept(auth_tokens, auth_tokens')
          /\ Live(password_resets, "used_at") \subseteq Kept(password_resets, password_resets')
          /\ Live(email_verifications, "used_at")
                \subseteq Kept(email_verifications, email_verifications')
      ]_vars

\* the users that the last step of a cleanup run deletes
Purged == IF cpc = "users" THEN DOMAIN users \ DOMAIN users' ELSE {}

\* C33, amended: the three token purges of a cleanup run delete only rows
\* that are expired or revoked/used and change no row; a good token is deleted
\* by a cleanup run only together with its user, by the purge of users.
C33_CleanupKeepsLiveTokensOfKeptUsers ==
    [][CleanupStep
       => /\ \A id \in Live(auth_tokens, "revoked_at") \ Kept(auth_tokens, auth_tokens') :
                 id \notin DOMAIN auth_tokens' /\ auth_tokens[id].user_id \in Purged
          /\ \A id \in Live(password_resets, "used_at") \ Kept(password_resets, password_resets') :
                 id \notin DOMAIN password_resets' /\ password_resets[id].user_id \in Purged
          /\ \A id \in Live(email_verifications, "used_at")
                        \ Kept(email_verifications, email_verifications') :
                 /\ id \notin DOMAIN email_verifications'
                 /\ email_verifications[id].user_id \in Purged
          /\ \A id \in DOMAIN auth_tokens' : auth_tokens'[id] = auth_tokens[id]
          /\ \A id \in DOMAIN password_resets' : password_resets'[id] = password_resets[id]
          /\ \A id \in DOMAIN email_verifications' :
                 email_verifications'[id] = email_verifications[id]
      ]_vars

\* a cleanup run has ended without an error after it deleted an expired
\* password reset, and an un-used, un-expired password reset of a user who
\* is still there has come through it
C33_Witness ==
    /\ cpc = "idle" /\ cleanups = 1 /\ cerr = Nil
    /\ \E id \in Live(password_resets, "used_at") :
           /\ password_resets[id].user_id \in DOMAIN users
           /\ id <= minted.reset
    /\ \E id \in 1..minted.reset : id \notin DOMAIN password_resets

\* C34: in every step a session row that stays keeps its expires_at and, once
\* revoked, stays revoked; the row of a raw token that was generated and is
\* gone does not come back; and a raw token that validate refuses with
\* ErrTokenRevoked or ErrTokenExpired is refused after the step too.
C34_SessionLifecycleIsMonotone ==
    [][\A token \in 1..MaxAuthTokens :
        /\ (token \in DOMAIN auth_tokens /\ token \in DOMAIN auth_tokens')
            => /\ auth_tokens'[token].expires_at = auth_tokens[token].expires_at
               /\ auth_tokens[token].revoked_at # Null => auth_tokens'[token].revoked_at # Null
        /\ (token <= minted.auth /\ token \notin DOMAIN auth_tokens)
            => token \notin DOMAIN auth_tokens'
        /\ ValidateToken(token, FALSE).err \in {ErrTokenRevoked, ErrTokenExpired}
            => ValidateToken(token, FALSE)'.err # Nil
      ]_vars

\* a logout has revoked once more a session row that was already revoked, and
\* the row has since expired as well: it is still there, still revoked, with
\* the expires_at it was created with, and validate refuses its raw token
C34_Witness ==
    \E w \in Workers :
        /\ pc[w] = "idle" /\ l[w].op = "logout" /\ l[w].err = Nil /\ l[w].wasRevoked
        /\ l[w].token \in DOMAIN auth_tokens
        /\ auth_tokens[l[w].token].revoked_at # Null
        /\ After(now, auth_tokens[l[w].token].expires_at)
        /\ ValidateToken(l[w].token, FALSE).err = ErrTokenRevoked

\* C35 as stated: with the session TTL left at 0, validate never refuses a
\* raw token with ErrTokenExpired.
C35_UnsetTTLNeverExpires ==
    \A token \in 1..MaxAuthTokens :
        config.AuthTokenTTL = 0 => ValidateToken(token, FALSE).err # ErrTokenExpired

\* C35, amended: with the session TTL left at 0, a login stores its session
\* with expires_at one year (DefaultAuthTokenTTL) after the clock, and
\* validate refuses a raw token with ErrTokenExpired exactly when its row is
\* there, is not revoked, and the clock is past its expires_at.
C35_UnsetTTLExpiresAfterDefault ==
    [][config.AuthTokenTTL = 0
       => /\ \A token \in DOMAIN auth_tokens' \ DOMAIN auth_tokens :
                auth_tokens'[token].expires_at = now + DefaultAuthTokenTTL
          /\ \A token \in 1..MaxAuthTokens :
                ValidateToken(token, FALSE)'.err = ErrTokenExpired
                <=> /\ token \in DOMAIN auth_tokens'
                    /\ auth_tokens'[token].revoked_at = Null
                    /\ now' > auth_tokens'[token].expires_at
      ]_vars

\* under the default configuration a login has stored a session that runs
\* for a year, and an older session, never revoked, has expired
C35_Witness ==
    /\ config.AuthTokenTTL = 0
    /\ \E w \in Workers :
           /\ pc[w] = "idle" /\ l[w].op = "login" /\ l[w].err = Nil
           /\ l[w].token \in DOMAIN auth_tokens
           /\ auth_tokens[l[w].token].expires_at > now
    /\ \E token \in DOMAIN auth_tokens :
           /\ auth_tokens[token].revoked_at = Null
           /\ ValidateToken(token, FALSE).err = ErrTokenExpired

\* C36: no call returns an error whose cause is sql.ErrNoRows: a lookup that
\* finds no record ends in a domain error or in a silent nil.
C36_LookupMissIsDomainError ==
    \A w \in Workers :
        (pc[w] = "idle" /\ l[w] # NoCall /\ l[w].err # Nil)
        => ~Is(l[w].err, ErrNoRows)

\* C37: while a user's deletion_scheduled_at is set, validate accepts none of
\* the user's sessions.
C37_NoValidSessionWhileScheduled ==
    \A u \in DOMAIN users :
        users[u].deletion_scheduled_at # Null
        => \A id \in DOMAIN auth_tokens : auth_tokens[id].user_id = u => ~Valid(id)

\* the users a call may change: the owner of the presented token, email or id
Owner(call) ==
    CASE call.op = "login" -> {call.email}
      [] call.op = "logout" ->
            {auth_tokens[id].user_id :
                id \in {i \in DOMAIN auth_tokens : auth_tokens[i].token_hash = HashToken(call.token)}}
      [] call.op = "execute" -> IF call.reset.found THEN {call.reset.user_id} ELSE {}
      [] call.op = "verify" -> IF call.verification.found THEN {call.verification.user_id} ELSE {}
      [] call.op \in {"send", "scheduleDeletion"} -> {call.userID}
      [] OTHER -> {}

\* a user's rows in a table of tokens
TokensOf(table, userID) ==
    [id \in {i \in DOMAIN table : table[i].user_id = userID} |-> table[id]]

\* the users whose row or tokens a step changes
Touched ==
    {u \in UserIDs :
        \/ (u \in DOMAIN users) # (u \in DOMAIN users')
        \/ u \in DOMAIN users /\ u \in DOMAIN users' /\ users'[u] # users[u]
        \/ TokensOf(auth_tokens', u) # TokensOf(auth_tokens, u)
        \/ TokensOf(password_resets', u) # TokensOf(password_resets, u)
        \/ TokensOf(email_verifications', u) # TokensOf(email_verifications, u)}

\* C38: a step of a login, logout, Execute, Verify, Send or ScheduleDeletion
\* changes the user row and the tokens of nobody but the owner of the token,
\* email or id the call was made with.
C38_CallsChangeOnlyTheirUser ==
    [][\A w \in Workers :
        (pc'[w] # pc[w] \/ l'[w] # l[w]) => Touched \subseteq Owner(l'[w])
      ]_vars

\* an Execute with the first user's reset token has committed: the first
\* user's password and tokens have changed, the second user's password, reset
\* token and session are as they were
C38_Witness ==
    \E w \in Workers :
        /\ pc[w] = "idle" /\ l[w].op = "execute" /\ l[w].err = Nil /\ l[w].txEnd = "commit"
        /\ l[w].reset.user_id = 1
        /\ users[1].password_hash = l[w].passwordHash
        /\ users[1].password_hash # BcryptHash(1)
        /\ password_resets[1].used_at # Null
        /\ users[2] = UserRow(2, BcryptHash(2))
        /\ password_resets[2].used_at = Null
        /\ \E id \in DOMAIN auth_tokens :
               auth_tokens[id].user_id = 2 /\ auth_tokens[id].revoked_at = Null

\* every session, password reset and email verification belongs to a user
\* that is there
TokensHaveUsers ==
    /\ \A id \in DOMAIN auth_tokens : auth_tokens[id].user_id \in DOMAIN users
    /\ \A id \in DOMAIN password_resets : password_resets[id].user_id \in DOMAIN users
    /\ \A id \in DOMAIN email_verifications : email_verifications[id].user_id \in DOMAIN users

\* C39: every token row always belongs to an existing user; the step that
\* hard-deletes a user deletes all the user's tokens, after which validate
\* answers ErrInvalidToken for the user's sessions and the lookups of Execute
\* and Verify find no row for the user's password resets and email
\* verifications; and the row of a generated token that is gone never comes
\* back.
C39_TokensGoWithTheirUser ==
    [][/\ TokensHaveUsers /\ TokensHaveUsers'
       /\ \A u \in DOMAIN users \ DOMAIN users' :
            /\ cpc = "users" /\ u \in DeleteScheduledUsers(users, now)
            /\ \A t \in DOMAIN TokensOf(auth_tokens, u) :
                   ValidateToken(t, FALSE)'.err = ErrInvalidToken
            /\ \A t \in DOMAIN TokensOf(password_resets, u) :
                   Is(PasswordResetRepository_GetByTokenHash(
                          password_resets', HashToken(t), FALSE).err, ErrNoRows)
            /\ \A t \in DOMAIN TokensOf(email_verifications, u) :
                   Is(EmailVerificationRepository_GetByTokenHash(
                          email_verifications', HashToken(t), FALSE).err, ErrNoRows)
       /\ \A t \in 1..minted.auth : t \notin DOMAIN auth_tokens => t \notin DOMAIN auth_tokens'
       /\ \A t \in 1..minted.reset :
              t \notin DOMAIN password_resets => t \notin DOMAIN password_resets'
       /\ \A t \in 1..minted.verification :
              t \notin DOMAIN email_verifications => t \notin DOMAIN email_verifications'
      ]_vars

\* the cleanup task has hard-deleted the user, and with the user the password
\* reset that was neither used nor expired; no token of the user is left and
\* validate answers ErrInvalidToken for the raw token of the user's last login
C39_Witness ==
    /\ cpc = "idle" /\ cleanups = 1 /\ cerr = Nil
    /\ now = PasswordResetTokenTTL /\ executed[1] = 0
    /\ users = <<>> /\ auth_tokens = <<>> /\ password_resets = <<>>
    /\ minted.auth = 2
    /\ ValidateToken(2, FALSE).err = ErrInvalidToken
    /\ \E w \in Workers :
           pc[w] = "idle" /\ l[w].op = "scheduleDeletion" /\ l[w].err = Nil

====
